---- MODULE Spec2Model ----
(***************************************************************************)
(* Staleness-aware cache and reconciliation engine of the running-playlist *)
(* generator: the SQLite store of cache.py, the fetch-or-reuse functions,  *)
(* the tempo batch reconciler, the tempo filter and the playlist pipeline  *)
(* of app.py.                                                              *)
(*                                                                         *)
(* Conventions.                                                            *)
(*  - A table is a function whose DOMAIN is the set of primary keys that   *)
(*    have a row; INSERT OR REPLACE is Upsert.                             *)
(*  - Optional[...] values are sequences of length <= 1 (<<>> is None).    *)
(*  - Time is counted in whole days; CURRENT_TIMESTAMP and utcnow() both   *)
(*    read the clock `now`.  A stored last_fetched is the day number the   *)
(*    timestamp text denotes, or Malformed for text fromisoformat rejects, *)
(*    or NonText for a value SQLite hands back as a number.                *)
(*  - A tempo is an integer number of tenths of a BPM (160.0 is 1600);     *)
(*    NoTempo is JSON null / SQL NULL, BadTempo a value float() rejects.   *)
(*  - An href is a sequence of text tokens, "track/" and "?" being the two *)
(*    markers extract_spotify_id_from_href looks for.                      *)
(*  - The chunk size, page size and saved-tracks threshold of the source   *)
(*    (40, 50, 500) are scaled down so that runs with several chunks and   *)
(*    pages fit a small identity universe.                                 *)
(***************************************************************************)
EXTENDS Integers, Sequences, FiniteSets, TLC

VARIABLES
    userData,      \* table user_spotify_data: <<user, data_key>> -> row
    artistData,    \* table artist_top_tracks: artist_id -> row
    featData,      \* table track_features: spotify_id -> row
    recData,       \* table reccobeats_recommendations: seed id -> row
    combinedData,  \* table user_combined_tracks: user -> row
    now,           \* the clock, in days
    pipe,          \* position of generate_playlist_logic ("idle": no run)
    run,           \* locals of generate_playlist_logic
    fn,            \* the multi-request function in progress ("none")
    frame,         \* locals of that function (kept after it returns)
    call,          \* name of the function whose step was taken last
    ret,           \* value returned by the last completed function call
    reqs,          \* upstream requests issued by the current/last call
    playlist,      \* user_playlist_create / playlist_add_items calls of the run
    events,        \* SSE events yielded by the current/last run
    arg            \* arguments of the last call of a pure function

store == <<userData, artistData, featData, recData, combinedData>>
vars == <<userData, artistData, featData, recData, combinedData, now,
          pipe, run, fn, frame, call, ret, reqs, playlist, events, arg>>

(***************************************************************************)
(* Program constants and model bounds                                      *)
(***************************************************************************)
CACHE_TTL_DAYS == 30
CHUNK_SIZE == 2
PAGE_LIMIT == 2
SAVED_THRESHOLD == 3
PLAYLIST_BATCH == 2
MaxTime == 31

None == "None"
NoTempo == 0 - 1
BadTempo == 0 - 2
Malformed == 0 - 1
NonText == 0 - 3
EmptyTable == <<>>

(***************************************************************************)
(* cache.py helpers                                                        *)
(***************************************************************************)
\* is_stale raises AttributeError: a last_fetched that is neither str nor
\* datetime skips the parse and fails at last_fetched.tzinfo.
is_stale_raises(last_fetched) == last_fetched = NonText

\* Variant with a non-strict comparison.
is_stale_ge(last_fetched, days, utcnow) ==
    IF last_fetched = Malformed THEN TRUE
    ELSE utcnow - last_fetched >= days

\* CURRENT_TIMESTAMP text carries no UTC offset, so the tzinfo branch
\* (cache.py 112-113) leaves the parsed value as it is.
is_stale(last_fetched, days, utcnow) ==
    IF last_fetched = Malformed THEN TRUE
    ELSE utcnow - last_fetched > days

\* Position of the first occurrence of token tok in s, 0 when there is none.
IndexOf(s, tok) ==
    IF \E i \in 1..Len(s) : s[i] = tok
    THEN CHOOSE i \in 1..Len(s) : s[i] = tok /\ \A j \in 1..(i-1) : s[j] # tok
    ELSE 0

RECURSIVE Join(_)
Join(s) == IF Len(s) = 1 THEN s[1] ELSE s[1] \o Join(Tail(s))

extract_spotify_id_from_href(href) ==
    IF href = <<>> THEN None
    ELSE LET i == IndexOf(href, "track/")
             segment == IF i > 0 THEN SubSeq(href, i + 1, Len(href)) ELSE href
             j == IndexOf(segment, "?")
             cut == IF j > 0 THEN SubSeq(segment, 1, j - 1) ELSE segment
         IN  IF cut = <<>> THEN None ELSE Join(cut)

Upsert(tbl, key, row) ==
    [k \in DOMAIN tbl \cup {key} |-> IF k = key THEN row ELSE tbl[k]]

Row(tbl, key) == IF key \in DOMAIN tbl THEN <<tbl[key]>> ELSE <<>>

(***************************************************************************)
(* json.dumps / json.loads: the text of a list is "[", the texts of its    *)
(* elements separated by ",", then "]"; the text of a dict is one object   *)
(* between braces.  A text is a sequence of tokens; NULL is the empty text.*)
(***************************************************************************)
JsonTok(t) == [t |-> t, v |-> <<>>]
JsonVal(e) == [t |-> "value", v |-> <<e>>]

RECURSIVE JsonItems(_)
JsonItems(list) ==
    IF list = <<>> THEN <<>>
    ELSE IF Len(list) = 1 THEN <<JsonVal(list[1])>>
    ELSE <<JsonVal(Head(list)), JsonTok(",")>> \o JsonItems(Tail(list))

json_dumps(list) == <<JsonTok("[")>> \o JsonItems(list) \o <<JsonTok("]")>>

\* Variant that parses only the first element of a list.
json_loads_first(text) ==
    LET inner == SubSeq(text, 2, Len(text) - 1)
        vals == SelectSeq(inner, LAMBDA k : k.t = "value")
    IN  [i \in 1..(IF vals = <<>> THEN 0 ELSE 1) |-> vals[i].v[1]]

json_loads(text) ==
    LET inner == SubSeq(text, 2, Len(text) - 1)
        vals == SelectSeq(inner, LAMBDA k : k.t = "value")
    IN  [i \in 1..Len(vals) |-> vals[i].v[1]]

json_dumps_dict(obj) == <<JsonTok("{"), JsonVal(obj), JsonTok("}")>>

json_loads_dict(text) == text[2].v[1]

(***************************************************************************)
(* cache.py: the five resource kinds                                       *)
(***************************************************************************)
load_user_spotify_data(tbl, spotify_user_id, data_key) ==
    LET row == Row(tbl, <<spotify_user_id, data_key>>)
    IN  IF row = <<>> THEN <<>>
        ELSE <<[payload |-> json_loads(row[1].payload), count |-> row[1].count,
                last_fetched |-> row[1].last_fetched]>>

\* Variant that merges the payload into the one the key already holds.
save_user_spotify_data_merge(tbl, spotify_user_id, data_key, payload, ts) ==
    LET key == <<spotify_user_id, data_key>>
        merged == IF key \in DOMAIN tbl THEN json_loads(tbl[key].payload) \o payload
                  ELSE payload
    IN  Upsert(tbl, key,
               [payload |-> json_dumps(merged), count |-> Len(merged), last_fetched |-> ts])

save_user_spotify_data(tbl, spotify_user_id, data_key, payload, ts) ==
    Upsert(tbl, <<spotify_user_id, data_key>>,
           [payload |-> json_dumps(payload), count |-> Len(payload), last_fetched |-> ts])

load_artist_top_tracks(tbl, artist_id) ==
    LET row == Row(tbl, artist_id)
    IN  IF row = <<>> THEN <<>>
        ELSE <<[payload |-> json_loads(row[1].payload), count |-> row[1].count,
                last_fetched |-> row[1].last_fetched]>>

save_artist_top_tracks(tbl, artist_id, payload, ts) ==
    Upsert(tbl, artist_id,
           [payload |-> json_dumps(payload), count |-> Len(payload), last_fetched |-> ts])

load_reccobeats_recommendations(tbl, seed_track_id) ==
    LET r == Row(tbl, seed_track_id)
    IN  IF r = <<>> THEN <<>>
        ELSE <<[recs_json |-> json_loads(r[1].recs_json), count |-> r[1].count,
                last_fetched |-> r[1].last_fetched]>>

save_reccobeats_recommendations(tbl, seed_track_id, recs_list, ts) ==
    Upsert(tbl, seed_track_id,
           [recs_json |-> json_dumps(recs_list), count |-> Len(recs_list),
            last_fetched |-> ts])

load_user_combined_tracks(tbl, spotify_user_id) ==
    LET r == Row(tbl, spotify_user_id)
    IN  IF r = <<>> THEN <<>> ELSE <<json_loads(r[1].track_ids)>>

save_user_combined_tracks(tbl, spotify_user_id, track_ids, ts) ==
    Upsert(tbl, spotify_user_id,
           [track_ids |-> json_dumps(track_ids), count |-> Len(track_ids),
            last_fetched |-> ts])

\* Variant that leaves out the rows without a tempo.
load_track_features_tempo_only(tbl, spotify_ids) ==
    LET ids == {id \in {spotify_ids[i] : i \in 1..Len(spotify_ids)} \cap DOMAIN tbl :
                   tbl[id].tempo # NoTempo}
    IN  [id \in ids |-> [tempo |-> tbl[id].tempo,
                         features |-> IF tbl[id].features_json # <<>>
                                      THEN <<json_loads_dict(tbl[id].features_json)>>
                                      ELSE <<>>,
                         last_fetched |-> tbl[id].last_fetched,
                         fetch_status |-> tbl[id].fetch_status]]

\* SELECT ... WHERE spotify_id IN (...): only the ids that have a row.
load_track_features(tbl, spotify_ids) ==
    LET ids == {spotify_ids[i] : i \in 1..Len(spotify_ids)} \cap DOMAIN tbl
    IN  [id \in ids |-> [tempo |-> tbl[id].tempo,
                         features |-> IF tbl[id].features_json # <<>>
                                      THEN <<json_loads_dict(tbl[id].features_json)>>
                                      ELSE <<>>,
                         last_fetched |-> tbl[id].last_fetched,
                         fetch_status |-> tbl[id].fetch_status]]

\* float(tempo) of save_track_features, None kept and a rejected value dropped.
TempoVal(tempo) == IF tempo = NoTempo \/ tempo = BadTempo THEN NoTempo ELSE tempo

RECURSIVE save_track_features(_, _, _)
save_track_features(tbl, feature_objs, ts) ==
    IF feature_objs = <<>> THEN tbl
    ELSE LET obj == Head(feature_objs)
             spotify_id == extract_spotify_id_from_href(obj.href)
             next == IF spotify_id = None THEN tbl
                     ELSE Upsert(tbl, spotify_id,
                                 [tempo |-> TempoVal(obj.tempo),
                                  features_json |-> json_dumps_dict(obj),
                                  last_fetched |-> ts, fetch_status |-> "ok"])
         IN  save_track_features(next, Tail(feature_objs), ts)

\* Variant that writes the rows with fetch_status 'ok'.
RECURSIVE mark_tracks_ok(_, _, _)
mark_tracks_ok(tbl, spotify_ids, ts) ==
    IF spotify_ids = <<>> THEN tbl
    ELSE mark_tracks_ok(
             Upsert(tbl, Head(spotify_ids),
                    [tempo |-> NoTempo, features_json |-> <<>>,
                     last_fetched |-> ts, fetch_status |-> "ok"]),
             Tail(spotify_ids), ts)

\* Variant that updates fetch_status and last_fetched of an existing row
\* and keeps its tempo and features_json.
RECURSIVE mark_tracks_no_data_keep(_, _, _)
mark_tracks_no_data_keep(tbl, spotify_ids, ts) ==
    IF spotify_ids = <<>> THEN tbl
    ELSE LET id == Head(spotify_ids)
             row == IF id \in DOMAIN tbl
                    THEN [tbl[id] EXCEPT !.last_fetched = ts, !.fetch_status = "no_data"]
                    ELSE [tempo |-> NoTempo, features_json |-> <<>>,
                          last_fetched |-> ts, fetch_status |-> "no_data"]
         IN  mark_tracks_no_data_keep(Upsert(tbl, id, row), Tail(spotify_ids), ts)

RECURSIVE mark_tracks_no_data(_, _, _)
mark_tracks_no_data(tbl, spotify_ids, ts) ==
    IF spotify_ids = <<>> THEN tbl
    ELSE mark_tracks_no_data(
             Upsert(tbl, Head(spotify_ids),
                    [tempo |-> NoTempo, features_json |-> <<>>,
                     last_fetched |-> ts, fetch_status |-> "no_data"]),
             Tail(spotify_ids), ts)

(***************************************************************************)
(* Values exchanged with the two upstream APIs                             *)
(***************************************************************************)
Track(id) == [id |-> id]
Artist(id) == [id |-> id]
SavedItem(id) == [track |-> <<Track(id)>>]
NoTrackItem == [track |-> <<>>]
Href(id) == <<"https://open.spotify.com/", "track/", id>>
Rec(id) == [href |-> Href(id)]
Feature(id, tempo) == [href |-> Href(id), tempo |-> tempo]
Req(api, a, ok) == [api |-> api, arg |-> a, ok |-> ok]
Range(s) == {s[i] : i \in 1..Len(s)}

\* Outcome of one catalog call: the items of the response, or SpotifyException.
Items(items) == [ok |-> TRUE, items |-> items]
SpotifyException == [ok |-> FALSE, items |-> <<>>]
\* Outcome of one ReccoBeats call: a payload whose "content" is a list, a
\* payload without such a list, or requests.RequestException.
Content(content) == [ok |-> TRUE, list |-> TRUE, content |-> content]
NoContent == [ok |-> TRUE, list |-> FALSE, content |-> <<>>]
RequestException == [ok |-> FALSE, list |-> FALSE, content |-> <<>>]

(***************************************************************************)
(* app.py: fetch-or-reuse functions with a single upstream request.  Each  *)
(* yields the returned value, the table after the call and the requests.   *)
(***************************************************************************)
\* Variant that caches an empty payload when the request fails.
fetch_user_top_tracks_poison(tbl, user_id, up, utcnow) ==
    LET cached == load_user_spotify_data(tbl, user_id, "top_tracks")
    IN  IF cached # <<>> /\ ~is_stale(cached[1].last_fetched, CACHE_TTL_DAYS, utcnow)
        THEN [ret |-> cached[1].payload, tbl |-> tbl, reqs |-> <<>>]
        ELSE [ret |-> up.items,
              tbl |-> save_user_spotify_data(tbl, user_id, "top_tracks", up.items, utcnow),
              reqs |-> <<Req("current_user_top_tracks", user_id, up.ok)>>]

fetch_user_top_tracks(tbl, user_id, up, utcnow) ==
    LET cached == load_user_spotify_data(tbl, user_id, "top_tracks")
    IN  IF cached # <<>> /\ ~is_stale(cached[1].last_fetched, CACHE_TTL_DAYS, utcnow)
        THEN [ret |-> cached[1].payload, tbl |-> tbl, reqs |-> <<>>]
        ELSE IF up.ok
        THEN [ret |-> up.items,
              tbl |-> save_user_spotify_data(tbl, user_id, "top_tracks", up.items, utcnow),
              reqs |-> <<Req("current_user_top_tracks", user_id, TRUE)>>]
        ELSE [ret |-> <<>>, tbl |-> tbl,
              reqs |-> <<Req("current_user_top_tracks", user_id, FALSE)>>]

fetch_user_top_artists(tbl, user_id, up, utcnow) ==
    LET cached == load_user_spotify_data(tbl, user_id, "top_artists")
    IN  IF cached # <<>> /\ ~is_stale(cached[1].last_fetched, CACHE_TTL_DAYS, utcnow)
        THEN [ret |-> cached[1].payload, tbl |-> tbl, reqs |-> <<>>]
        ELSE IF up.ok
        THEN [ret |-> up.items,
              tbl |-> save_user_spotify_data(tbl, user_id, "top_artists", up.items, utcnow),
              reqs |-> <<Req("current_user_top_artists", user_id, TRUE)>>]
        ELSE [ret |-> <<>>, tbl |-> tbl,
              reqs |-> <<Req("current_user_top_artists", user_id, FALSE)>>]

fetch_artist_top_tracks(tbl, artist_id, up, utcnow) ==
    LET cached == load_artist_top_tracks(tbl, artist_id)
    IN  IF cached # <<>> /\ ~is_stale(cached[1].last_fetched, CACHE_TTL_DAYS, utcnow)
        THEN [ret |-> cached[1].payload, tbl |-> tbl, reqs |-> <<>>]
        ELSE IF up.ok
        THEN [ret |-> up.items,
              tbl |-> save_artist_top_tracks(tbl, artist_id, up.items, utcnow),
              reqs |-> <<Req("artist_top_tracks", artist_id, TRUE)>>]
        ELSE [ret |-> <<>>, tbl |-> tbl,
              reqs |-> <<Req("artist_top_tracks", artist_id, FALSE)>>]

(***************************************************************************)
(* Steps of the functions, shared by the direct calls and by the pipeline. *)
(* Each constrains the five tables and fn, frame, call, ret, reqs, arg.    *)
(***************************************************************************)
Min(a, b) == IF a < b THEN a ELSE b

Fresh(cached, utcnow) ==
    cached # <<>> /\ ~is_stale(cached[1].last_fetched, CACHE_TTL_DAYS, utcnow)

DoFetchUserTopTracks(user_id, up) ==
    LET r == fetch_user_top_tracks(userData, user_id, up, now)
    IN  /\ userData' = r.tbl
        /\ ret' = r.ret
        /\ reqs' = r.reqs
        /\ call' = "fetch_user_top_tracks"
        /\ arg' = <<user_id>>
        /\ UNCHANGED <<artistData, featData, recData, combinedData, fn, frame>>

DoFetchUserTopArtists(user_id, up) ==
    LET r == fetch_user_top_artists(userData, user_id, up, now)
    IN  /\ userData' = r.tbl
        /\ ret' = r.ret
        /\ reqs' = r.reqs
        /\ call' = "fetch_user_top_artists"
        /\ arg' = <<user_id>>
        /\ UNCHANGED <<artistData, featData, recData, combinedData, fn, frame>>

DoFetchArtistTopTracks(artist_id, up) ==
    LET r == fetch_artist_top_tracks(artistData, artist_id, up, now)
    IN  /\ artistData' = r.tbl
        /\ ret' = r.ret
        /\ reqs' = r.reqs
        /\ call' = "fetch_artist_top_tracks"
        /\ arg' = <<artist_id>>
        /\ UNCHANGED <<userData, featData, recData, combinedData, fn, frame>>

\* ---- fetch_user_saved_tracks: one step per page request -----------------
\* What the catalog returns for (limit, offset) when the user's saved
\* collection is coll.
PageOf(coll, limit, offset) ==
    SubSeq(coll, offset + 1, Min(Len(coll), offset + limit))

\* Variant that appends a track only once per page.
RECURSIVE OncePerId(_, _)
OncePerId(tracks, seen) ==
    IF tracks = <<>> THEN <<>>
    ELSE IF Head(tracks).id \in seen THEN OncePerId(Tail(tracks), seen)
    ELSE <<Head(tracks)>> \o OncePerId(Tail(tracks), seen \cup {Head(tracks).id})
TracksOfOnce(items) ==
    LET kept == SelectSeq(items, LAMBDA it : it.track # <<>> /\ it.track[1].id # None)
    IN  OncePerId([i \in 1..Len(kept) |-> kept[i].track[1]], {})

\* The tracks a page appends: items that carry a track with an id.
TracksOf(items) ==
    LET kept == SelectSeq(items, LAMBDA it : it.track # <<>> /\ it.track[1].id # None)
    IN  [i \in 1..Len(kept) |-> kept[i].track[1]]

\* Entry: the cache check; `coll` is the collection the catalog will page through.
SavedTracksBegin(user_id, limit, coll) ==
    LET cached == load_user_spotify_data(userData, user_id, "saved_tracks")
    IN  /\ call' = "fetch_user_saved_tracks"
        /\ arg' = <<user_id>>
        /\ reqs' = <<>>
        /\ IF Fresh(cached, now)
           THEN /\ ret' = cached[1].payload
                /\ UNCHANGED <<fn, frame>>
           ELSE /\ fn' = "saved"
                /\ frame' = [user_id |-> user_id, limit |-> limit, cached |-> cached,
                             tracks |-> <<>>, offset |-> 0, upstream |-> coll]
                /\ ret' = <<>>
        /\ UNCHANGED store

\* One sp.current_user_saved_tracks(limit, offset) request and the loop body.
SavedTracksPage(ok) ==
    /\ fn = "saved"
    /\ call' = "fetch_user_saved_tracks"
    /\ reqs' = Append(reqs, Req("current_user_saved_tracks", frame.offset, ok))
    /\ UNCHANGED <<artistData, featData, recData, combinedData, arg>>
    /\ IF ~ok
       THEN \* except SpotifyException: print, then `return tracks`
            /\ fn' = "none"
            /\ ret' = frame.tracks
            /\ UNCHANGED <<userData, frame>>
       ELSE LET items == PageOf(frame.upstream, frame.limit, frame.offset)
                tracks == frame.tracks \o TracksOf(items)
            IN  /\ frame' = [frame EXCEPT !.tracks = tracks,
                                          !.offset = frame.offset + Len(items)]
                /\ IF items = <<>> \/ Len(items) < frame.limit
                   THEN /\ fn' = "none"
                        /\ ret' = tracks
                        /\ userData' = save_user_spotify_data(
                                           userData, frame.user_id, "saved_tracks", tracks, now)
                   ELSE UNCHANGED <<fn, ret, userData>>

\* ---- fetch_similar_tracks_for_top_tracks: one step per top track --------
HrefIds(recs) ==
    {extract_spotify_id_from_href(recs[i].href) : i \in 1..Len(recs)} \ {None}

SimilarBegin(top_tracks) ==
    /\ call' = "fetch_similar_tracks_for_top_tracks"
    /\ arg' = <<top_tracks>>
    /\ reqs' = <<>>
    /\ fn' = "similar"
    /\ frame' = [queue |-> top_tracks, similar_ids |-> {}, track_id |-> None,
                 cached |-> <<>>]
    /\ ret' = <<>>
    /\ UNCHANGED store

\* The loop body for the next top track: cache check, else one request.
SimilarTrack(up) ==
    /\ fn = "similar"
    /\ frame.queue # <<>>
    /\ call' = "fetch_similar_tracks_for_top_tracks"
    /\ UNCHANGED <<userData, artistData, featData, combinedData, arg, fn, ret>>
    /\ LET track_id == Head(frame.queue).id
           cached == load_reccobeats_recommendations(recData, track_id)
           rest == [frame EXCEPT !.queue = Tail(frame.queue), !.track_id = track_id,
                                 !.cached = cached]
       IN  IF track_id = None
           THEN /\ frame' = [rest EXCEPT !.cached = <<>>]
                /\ UNCHANGED <<recData, reqs>>
           ELSE IF Fresh(cached, now)
           THEN /\ frame' = [rest EXCEPT !.similar_ids =
                                 frame.similar_ids \cup HrefIds(cached[1].recs_json)]
                /\ UNCHANGED <<recData, reqs>>
           ELSE /\ reqs' = Append(reqs, Req("track/recommendation", track_id, up.ok))
                /\ IF up.ok /\ up.list
                   THEN /\ recData' = save_reccobeats_recommendations(
                                          recData, track_id, up.content, now)
                        /\ frame' = [rest EXCEPT !.similar_ids =
                                         frame.similar_ids \cup HrefIds(up.content)]
                   ELSE /\ frame' = rest
                        /\ UNCHANGED recData

\* After the loop: return list(similar_ids); its order is unspecified and the
\* caller only takes the set of it.
SimilarReturn ==
    /\ fn = "similar"
    /\ frame.queue = <<>>
    /\ call' = "fetch_similar_tracks_for_top_tracks"
    /\ fn' = "none"
    /\ ret' = frame.similar_ids
    /\ UNCHANGED <<store, arg, reqs, frame>>

\* ---- fetch_missing_tempos_with_reccobeats: one step per chunk ----------
FeaturesReq(chunk, up) ==
    [api |-> "audio-features", arg |-> chunk, ok |-> up.ok, list |-> up.list,
     content |-> up.content]

\* Variant that never retries a 'no_data' row.
NeedsFetchOkOnly(cached_data, tid, utcnow) ==
    IF tid \notin DOMAIN cached_data THEN TRUE
    ELSE LET entry == cached_data[tid]
         IN  /\ entry.fetch_status = "ok"
             /\ is_stale(entry.last_fetched, CACHE_TTL_DAYS, utcnow)

\* Variant that retries every 'no_data' row, stale or not.
NeedsFetchAlways(cached_data, tid, utcnow) ==
    IF tid \notin DOMAIN cached_data THEN TRUE
    ELSE LET entry == cached_data[tid]
         IN  \/ entry.fetch_status = "ok"
                /\ is_stale(entry.last_fetched, CACHE_TTL_DAYS, utcnow)
             \/ entry.fetch_status = "no_data"

\* The test that puts tid into missing_ids.
NeedsFetch(cached_data, tid, utcnow) ==
    IF tid \notin DOMAIN cached_data THEN TRUE
    ELSE LET entry == cached_data[tid]
         IN  \/ entry.fetch_status = "ok"
                /\ is_stale(entry.last_fetched, CACHE_TTL_DAYS, utcnow)
             \/ entry.fetch_status = "no_data"
                /\ is_stale(entry.last_fetched, CACHE_TTL_DAYS, utcnow)

MissingIds(track_ids, cached_data, utcnow) ==
    SelectSeq(track_ids, LAMBDA tid : NeedsFetch(cached_data, tid, utcnow))

\* Variant that marks every id of the chunk, returned or not.
NoDataIdsAll(chunk, content) == chunk

\* returned_ids and no_data_ids of one chunk.
ReturnedIds(content) ==
    {extract_spotify_id_from_href(content[i].href) : i \in 1..Len(content)} \ {None}
NoDataIds(chunk, content) ==
    SelectSeq(chunk, LAMBDA cid : cid \notin ReturnedIds(content))

\* Variant that marks the chunk 'no_data' when its request fails.
ReconcileChunkMarkFailed(tbl, chunk, up, ts) ==
    IF up.ok /\ up.list
    THEN mark_tracks_no_data(save_track_features(tbl, up.content, ts),
                             NoDataIds(chunk, up.content), ts)
    ELSE IF up.ok THEN tbl
    ELSE mark_tracks_no_data(tbl, chunk, ts)

\* The body of the chunk loop: track_features after one chunk's request.
ReconcileChunk(tbl, chunk, up, ts) ==
    IF up.ok /\ up.list
    THEN mark_tracks_no_data(save_track_features(tbl, up.content, ts),
                             NoDataIds(chunk, up.content), ts)
    ELSE tbl

TemposBegin(track_ids) ==
    /\ call' = "fetch_missing_tempos_with_reccobeats"
    /\ arg' = <<track_ids>>
    /\ reqs' = <<>>
    /\ UNCHANGED store
    /\ IF track_ids = <<>>
       THEN /\ ret' = <<>>
            /\ UNCHANGED <<fn, frame>>
       ELSE LET cached_data == load_track_features(featData, track_ids)
                missing_ids == MissingIds(track_ids, cached_data, now)
            IN  /\ frame' = [track_ids |-> track_ids, cached_data |-> cached_data,
                             missing_ids |-> missing_ids, i |-> 0]
                /\ IF missing_ids = <<>>
                   THEN ret' = cached_data /\ UNCHANGED fn
                   ELSE ret' = <<>> /\ fn' = "tempos"

TemposChunk(up) ==
    /\ fn = "tempos"
    /\ call' = "fetch_missing_tempos_with_reccobeats"
    /\ LET chunk == SubSeq(frame.missing_ids, frame.i + 1,
                           Min(Len(frame.missing_ids), frame.i + CHUNK_SIZE))
           tbl == ReconcileChunk(featData, chunk, up, now)
       IN  /\ reqs' = Append(reqs, FeaturesReq(chunk, up))
           /\ featData' = tbl
           /\ frame' = [frame EXCEPT !.i = frame.i + CHUNK_SIZE]
           /\ IF frame.i + CHUNK_SIZE >= Len(frame.missing_ids)
              THEN /\ fn' = "none"
                   /\ ret' = load_track_features(tbl, frame.track_ids)
              ELSE UNCHANGED <<fn, ret>>
    /\ UNCHANGED <<userData, artistData, recData, combinedData, arg>>

(***************************************************************************)
(* Initial state: init_db() has created the five tables, all empty.        *)
(***************************************************************************)
Init ==
    /\ userData = EmptyTable
    /\ artistData = EmptyTable
    /\ featData = EmptyTable
    /\ recData = EmptyTable
    /\ combinedData = EmptyTable
    /\ now = 0
    /\ pipe = "idle"
    /\ run = <<>>
    /\ fn = "none"
    /\ frame = <<>>
    /\ call = "init_db"
    /\ ret = <<>>
    /\ reqs = <<>>
    /\ playlist = <<>>
    /\ events = <<>>
    /\ arg = <<>>

Idle == pipe = "idle" /\ fn = "none"

\* Time passes between calls: by exactly the TTL, or by one day more.
Tick ==
    /\ Idle
    /\ \E d \in {CACHE_TTL_DAYS, CACHE_TTL_DAYS + 1} :
          /\ now + d <= MaxTime
          /\ now' = now + d
    /\ call' = "tick"
    /\ UNCHANGED <<store, pipe, run, fn, frame, ret, reqs, playlist, events, arg>>

(***************************************************************************)
(* The fetch-or-reuse functions called directly, in any order              *)
(***************************************************************************)
Users == {"u1"}
ArtistIds == {"R1"}
TopTrackLists == {<<Track(None), Track("A")>>}
TopArtistLists == {<<Artist(None), Artist("R1")>>}
ArtistTrackLists == {<<Track("C")>>}
SavedCollections ==
    {<<>>, <<SavedItem("B")>>, <<SavedItem("B"), NoTrackItem>>,
     <<SavedItem("B"), SavedItem(None), SavedItem("C")>>}
RecLists == {<<Rec("D"), [href |-> <<>>]>>}

Outcomes(lists) == {Items(l) : l \in lists} \cup {SpotifyException}
RecOutcomes(lists) == {Content(l) : l \in lists} \cup {NoContent, RequestException}

CallFetchUserTopTracks ==
    /\ Idle
    /\ \E u \in Users, up \in Outcomes(TopTrackLists) : DoFetchUserTopTracks(u, up)
    /\ UNCHANGED <<now, pipe, run, playlist, events>>

CallFetchUserTopArtists ==
    /\ Idle
    /\ \E u \in Users, up \in Outcomes(TopArtistLists) : DoFetchUserTopArtists(u, up)
    /\ UNCHANGED <<now, pipe, run, playlist, events>>

CallFetchArtistTopTracks ==
    /\ Idle
    /\ \E a \in ArtistIds, up \in Outcomes(ArtistTrackLists) : DoFetchArtistTopTracks(a, up)
    /\ UNCHANGED <<now, pipe, run, playlist, events>>

CallFetchUserSavedTracks ==
    /\ Idle
    /\ \E u \in Users, coll \in SavedCollections : SavedTracksBegin(u, PAGE_LIMIT, coll)
    /\ UNCHANGED <<now, pipe, run, playlist, events>>

StepSavedTracksPage ==
    /\ \E ok \in BOOLEAN : SavedTracksPage(ok)
    /\ UNCHANGED <<now, pipe, run, playlist, events>>

CallFetchSimilarTracks ==
    /\ Idle
    /\ \E top_tracks \in TopTrackLists : SimilarBegin(top_tracks)
    /\ UNCHANGED <<now, pipe, run, playlist, events>>

StepSimilarTrack ==
    /\ \E up \in RecOutcomes(RecLists) : SimilarTrack(up)
    /\ UNCHANGED <<now, pipe, run, playlist, events>>

StepSimilarReturn ==
    /\ SimilarReturn
    /\ UNCHANGED <<now, pipe, run, playlist, events>>

NextOrch ==
    \/ CallFetchUserTopTracks
    \/ CallFetchUserTopArtists
    \/ CallFetchArtistTopTracks
    \/ CallFetchUserSavedTracks
    \/ StepSavedTracksPage
    \/ CallFetchSimilarTracks
    \/ StepSimilarTrack
    \/ StepSimilarReturn
    \/ Tick

SpecOrch == Init /\ [][NextOrch]_vars

(***************************************************************************)
(* Properties of the fetch-or-reuse functions (SpecOrch)                   *)
(***************************************************************************)
SingleRequestFns ==
    {"fetch_user_top_tracks", "fetch_user_top_artists", "fetch_artist_top_tracks"}

\* The row was written at most CACHE_TTL_DAYS days before t.
NotOlderThanTTL(row, t) ==
    row.last_fetched # Malformed /\ t - row.last_fetched <= CACHE_TTL_DAYS

\* The table and key a single-request function reads, by the name of the call.
KeyOf(name, a) ==
    IF name = "fetch_user_top_tracks" THEN <<a[1], "top_tracks">>
    ELSE IF name = "fetch_user_top_artists" THEN <<a[1], "top_artists">>
    ELSE a[1]
TableOf(name) == IF name = "fetch_artist_top_tracks" THEN artistData ELSE userData

\* The step is a call of a single-request function whose key holds a row
\* not older than the TTL.
FastPathSingle ==
    /\ call' \in SingleRequestFns
    /\ KeyOf(call', arg') \in DOMAIN TableOf(call')
    /\ NotOlderThanTTL(TableOf(call')[KeyOf(call', arg')], now)

FastPathSaved ==
    /\ fn = "none"
    /\ call' = "fetch_user_saved_tracks"
    /\ <<arg'[1], "saved_tracks">> \in DOMAIN userData
    /\ NotOlderThanTTL(userData[<<arg'[1], "saved_tracks">>], now)

FastPathSeed ==
    /\ fn = "similar"
    /\ call' = "fetch_similar_tracks_for_top_tracks"
    /\ frame.queue # <<>>
    /\ Head(frame.queue).id \in DOMAIN recData
    /\ NotOlderThanTTL(recData[Head(frame.queue).id], now)

\* C1: fast path.  A call of fetch_user_top_tracks, fetch_user_saved_tracks,
\* fetch_user_top_artists or fetch_artist_top_tracks, or the lookup of one
\* seed in fetch_similar_tracks_for_top_tracks, whose key holds a row that
\* is not stale issues no upstream request, leaves all five tables as they
\* were and returns the stored payload (for a seed: adds exactly the ids of
\* the stored recommendations to similar_ids).
C1_FastPath ==
    [][ /\ FastPathSingle =>
            /\ reqs' = <<>>
            /\ store' = store
            /\ ret' = json_loads(TableOf(call')[KeyOf(call', arg')].payload)
        /\ FastPathSaved =>
            /\ reqs' = <<>>
            /\ store' = store
            /\ fn' = "none"
            /\ ret' = json_loads(userData[<<arg'[1], "saved_tracks">>].payload)
        /\ FastPathSeed =>
            /\ reqs' = reqs
            /\ store' = store
            /\ frame'.similar_ids = frame.similar_ids \cup
                   HrefIds(json_loads(recData[Head(frame.queue).id].recs_json))
      ]_vars

\* A top-tracks call served from a row exactly CACHE_TTL_DAYS old.
C1_Witness ==
    /\ call = "fetch_user_top_tracks"
    /\ reqs = <<>>
    /\ <<"u1", "top_tracks">> \in DOMAIN userData
    /\ now - userData[<<"u1", "top_tracks">>].last_fetched = CACHE_TTL_DAYS
    /\ ret = json_loads(userData[<<"u1", "top_tracks">>].payload)
    /\ ret # <<>>

\* The step issues an upstream request that fails.
FailedRequestStep ==
    \/ /\ call' \in SingleRequestFns
       /\ reqs' # <<>>
       /\ ~reqs'[1].ok
    \/ /\ fn \in {"saved", "similar"}
       /\ Len(reqs') = Len(reqs) + 1
       /\ ~reqs'[Len(reqs')].ok

\* The step is a call (for a seed: a lookup) whose key has no row or a row
\* older than the TTL.
SlowPathStep ==
    \/ /\ call' \in SingleRequestFns
       /\ ~FastPathSingle
    \/ /\ fn = "similar"
       /\ call' = "fetch_similar_tracks_for_top_tracks"
       /\ frame.queue # <<>>
       /\ Head(frame.queue).id # None
       /\ ~FastPathSeed

\* C2: failure does not write.  A step whose upstream request fails leaves
\* all five tables as they were; when a saved-tracks page fails, the row of
\* the key is still the one loaded when the call began (or still absent).
\* So the key stays absent or stale, and a call for an absent or stale key
\* issues an upstream request (for saved tracks: enters the page loop, each
\* step of which issues one).
C2_FailureDoesNotWrite ==
    [][ /\ FailedRequestStep =>
            /\ store' = store
            /\ fn = "saved" =>
                 load_user_spotify_data(userData', frame.user_id, "saved_tracks")
                     = frame.cached
        /\ SlowPathStep => Len(reqs') = Len(IF fn = "similar" THEN reqs ELSE <<>>) + 1
        /\ (fn = "none" /\ call' = "fetch_user_saved_tracks" /\ ~FastPathSaved)
               => fn' = "saved"
        /\ (fn = "saved" /\ call' = "fetch_user_saved_tracks")
               => Len(reqs') = Len(reqs) + 1
      ]_vars

\* The second page of a saved-tracks call has failed while the key holds a
\* stale row, which is still there.
C2_Witness ==
    /\ call = "fetch_user_saved_tracks"
    /\ fn = "none"
    /\ Len(reqs) = 2
    /\ ~reqs[2].ok
    /\ <<"u1", "saved_tracks">> \in DOMAIN userData
    /\ now - userData[<<"u1", "saved_tracks">>].last_fetched > CACHE_TTL_DAYS

\* C3 (as claimed): failure returns empty.  A step whose upstream request
\* fails returns an empty payload (for a seed: adds nothing to similar_ids),
\* also when the failing request is a later page of the saved tracks.
C3_FailureReturnsEmpty ==
    [][ FailedRequestStep =>
            IF fn = "similar" THEN frame'.similar_ids = frame.similar_ids
            ELSE fn' = "none" /\ ret' = <<>>
      ]_vars

(***************************************************************************)
(* The batch reconciler called directly on any identity list               *)
(***************************************************************************)
FeatA == Feature("A", 1650)
FeatB == [href |-> <<"track/", "B", "?", "si=1">>, tempo |-> NoTempo]
FeatC == [href |-> <<"C">>, tempo |-> BadTempo]
FeatNoHref == [href |-> <<>>, tempo |-> 1650]
FeatNoId == [href |-> <<"https://open.spotify.com/", "track/", "?", "si=1">>, tempo |-> 1650]

\* What a features response may carry: any of these records, in this order.
ContentLists ==
    {<<>>, <<FeatA>>, <<FeatB>>, <<FeatC>>, <<FeatA, FeatB>>, <<FeatA, FeatC>>,
     <<FeatB, FeatC>>, <<FeatA, FeatB, FeatC>>, <<FeatNoHref, FeatA>>, <<FeatNoId>>}
FeatureOutcomes(lists) == {Content(l) : l \in lists} \cup {NoContent, RequestException}

\* Identity lists without repetition, as list(set(...)) produces them.
TrackIdLists ==
    {<<>>, <<"A">>, <<"B">>, <<"C">>, <<"A", "B">>, <<"B", "C">>, <<"C", "A">>,
     <<"A", "B", "C">>, <<"C", "B", "A">>, <<"B", "A", "C">>}

CallFetchMissingTempos ==
    /\ Idle
    /\ \E track_ids \in TrackIdLists : TemposBegin(track_ids)
    /\ UNCHANGED <<now, pipe, run, playlist, events>>

StepTemposChunk ==
    /\ \E up \in FeatureOutcomes(ContentLists) : TemposChunk(up)
    /\ UNCHANGED <<now, pipe, run, playlist, events>>

NextRecon ==
    \/ CallFetchMissingTempos
    \/ StepTemposChunk
    \/ Tick

SpecRecon == Init /\ [][NextRecon]_vars

(***************************************************************************)
(* Properties of the batch reconciler (SpecRecon)                          *)
(***************************************************************************)
InTempos == call = "fetch_missing_tempos_with_reccobeats"

\* The row load_track_features gives for id now.
RowNow(id) ==
    LET m == load_track_features(featData, <<id>>)
    IN  IF id \in DOMAIN m THEN <<m[id]>> ELSE <<>>

\* The row the store held for id when the current call loaded it.
RowAtCall(id) ==
    IF id \in DOMAIN frame.cached_data THEN <<frame.cached_data[id]>> ELSE <<>>

\* Identities a response names, read off the text of each href: what follows
\* the "track/" marker when there is one, up to the first "?".
NamedBy(content) ==
    {id \in {"A", "B", "C"} :
        \E k \in 1..Len(content) :
            LET h == content[k].href
            IN  \/ \E n \in 1..Len(h) : n > 1 /\ h[n - 1] = "track/" /\ h[n] = id
                \/ h = <<id>>}

\* The stored row of id was 'no_data' and not older than the TTL when the
\* call began.
Suppressed(id) ==
    /\ id \in DOMAIN frame.cached_data
    /\ frame.cached_data[id].fetch_status = "no_data"
    /\ NotOlderThanTTL(frame.cached_data[id], now)

\* C4: negative-result suppression.  No upstream batch request of a
\* reconciler call carries an identity whose stored row, when the call
\* began, was 'no_data' and not stale, whatever else the input list holds.
C4_NoDataNotRequested ==
    (InTempos /\ reqs # <<>>) =>
        \A k \in 1..Len(reqs) : \A id \in Range(reqs[k].arg) : ~Suppressed(id)

\* A call whose input holds a suppressed identity next to identities that
\* were requested.
C4_Witness ==
    /\ InTempos
    /\ reqs # <<>>
    /\ \E id \in Range(frame.track_ids) : Suppressed(id)
    /\ \E id \in Range(frame.track_ids) : id \in Range(reqs[1].arg)

SucceededChunksUpserted ==
    \A k \in 1..Len(reqs) :
        (reqs[k].ok /\ reqs[k].list) =>
            \A id \in Range(reqs[k].arg) :
                /\ id \in DOMAIN featData
                /\ featData[id].last_fetched = now
                /\ featData[id].fetch_status \in {"ok", "no_data"}

RECURSIVE filter_tracks_by_tempo_open(_, _, _)
filter_tracks_by_tempo_open(track_ids, tempo_data, cadence_bpm) ==
    IF track_ids = <<>> THEN <<>>
    ELSE LET track_id == Head(track_ids)
             rest == filter_tracks_by_tempo_open(Tail(track_ids), tempo_data, cadence_bpm)
         IN  IF /\ track_id \in DOMAIN tempo_data
                /\ tempo_data[track_id].fetch_status = "ok"
                /\ tempo_data[track_id].tempo # NoTempo
                /\ cadence_bpm * 10 <= tempo_data[track_id].tempo
                /\ tempo_data[track_id].tempo < (cadence_bpm + 9) * 10
             THEN <<track_id>> \o rest
             ELSE rest

\* Variant whose band excludes its lower end.
RECURSIVE filter_tracks_by_tempo_above(_, _, _)
filter_tracks_by_tempo_above(track_ids, tempo_data, cadence_bpm) ==
    IF track_ids = <<>> THEN <<>>
    ELSE LET track_id == Head(track_ids)
             rest == filter_tracks_by_tempo_above(Tail(track_ids), tempo_data, cadence_bpm)
         IN  IF /\ track_id \in DOMAIN tempo_data
                /\ tempo_data[track_id].fetch_status = "ok"
                /\ tempo_data[track_id].tempo # NoTempo
                /\ cadence_bpm * 10 < tempo_data[track_id].tempo
                /\ tempo_data[track_id].tempo <= (cadence_bpm + 9) * 10
             THEN <<track_id>> \o rest
             ELSE rest

\* Tempos are tenths of a BPM, so min_bpm and max_bpm are scaled by 10.
RECURSIVE filter_tracks_by_tempo(_, _, _)
filter_tracks_by_tempo(track_ids, tempo_data, cadence_bpm) ==
    IF track_ids = <<>> THEN <<>>
    ELSE LET track_id == Head(track_ids)
             min_bpm == cadence_bpm
             max_bpm == cadence_bpm + 9
             rest == filter_tracks_by_tempo(Tail(track_ids), tempo_data, cadence_bpm)
         IN  IF track_id \notin DOMAIN tempo_data
                \/ tempo_data[track_id].fetch_status # "ok"
             THEN rest
             ELSE IF tempo_data[track_id].tempo = NoTempo
             THEN rest
             ELSE IF min_bpm * 10 <= tempo_data[track_id].tempo
                     /\ tempo_data[track_id].tempo <= max_bpm * 10
             THEN <<track_id>> \o rest
             ELSE rest

TrackUris(track_ids) ==
    [i \in 1..Len(track_ids) |-> "spotify:track:" \o track_ids[i]]

\* The slices track_uris[i : i + 100] of playlist_add_items.
RECURSIVE Batches(_, _)
Batches(uris, size) ==
    IF uris = <<>> THEN <<>>
    ELSE <<SubSeq(uris, 1, Min(size, Len(uris)))>>
             \o Batches(SubSeq(uris, Min(size, Len(uris)) + 1, Len(uris)), size)

\* Variant that creates the playlist before looking at track_ids.
build_playlist_unguarded(track_ids, created, added) ==
    IF ~created THEN [ok |-> FALSE, error |-> "SpotifyException", calls |-> <<>>]
    ELSE LET batches == Batches(TrackUris(track_ids), PLAYLIST_BATCH)
             n == Min(added, Len(batches))
         IN  [ok |-> n = Len(batches),
              error |-> IF n = Len(batches) THEN "" ELSE "SpotifyException",
              calls |-> <<[api |-> "user_playlist_create", items |-> <<>>]>> \o
                        [k \in 1..Min(n + 1, Len(batches)) |->
                            [api |-> "playlist_add_items", items |-> batches[k]]]]

\* build_playlist_with_tempo_data: the catalog calls it issues, and whether
\* it returns (ok) or raises.  `created` says whether user_playlist_create
\* succeeds, `added` how many playlist_add_items calls succeed; `error` is
\* the message of the exception raised.
build_playlist_with_tempo_data(track_ids, created, added) ==
    IF track_ids = <<>>
    THEN [ok |-> FALSE, error |-> "No tracks matched that cadence.", calls |-> <<>>]
    ELSE IF ~created
    THEN [ok |-> FALSE, error |-> "SpotifyException",
          calls |-> <<[api |-> "user_playlist_create", items |-> <<>>]>>]
    ELSE LET batches == Batches(TrackUris(track_ids), PLAYLIST_BATCH)
             n == Min(added, Len(batches))
         IN  [ok |-> n = Len(batches),
              error |-> IF n = Len(batches) THEN "" ELSE "SpotifyException",
              calls |-> <<[api |-> "user_playlist_create", items |-> <<>>]>> \o
                        [k \in 1..Min(n + 1, Len(batches)) |->
                            [api |-> "playlist_add_items", items |-> batches[k]]]]

(***************************************************************************)
(* app.py: generate_playlist_logic, one step per call it makes.  A step    *)
(* first takes the value returned by the call the previous step made.      *)
(***************************************************************************)
Status(message) == [type |-> "status", message |-> message]
Error(message) == [type |-> "error", message |-> message]
Done == [type |-> "done", message |-> "Done!"]

IdsOf(tracks) == {tracks[i].id : i \in 1..Len(tracks)} \ {None}

\* The orders list(set(...)) may give the identities in.
Orders(S) ==
    {o \in [1..Cardinality(S) -> S] : \A i, j \in 1..Cardinality(S) : i # j => o[i] # o[j]}

\* Steps 1: status event, fetch_user_top_tracks.
PipeTopTracks(user, cadence, up) ==
    /\ Idle
    /\ DoFetchUserTopTracks(user.id, up)
    /\ run' = [user_id |-> user.id, cadence |-> cadence, top_tracks |-> ret',
               saved_tracks |-> <<>>, top_artists |-> <<>>, queue |-> <<>>,
               artist_tracks |-> <<>>, lookup |-> FALSE, similar_ids |-> {},
               all_track_ids |-> <<>>, tempo_data |-> <<>>, filtered_ids |-> <<>>]
    /\ events' = <<Status("top_tracks")>>
    /\ playlist' = <<>>
    /\ pipe' = "saved"
    /\ UNCHANGED now

\* Step 2: status event, fetch_user_saved_tracks.
PipeSavedTracks(coll) ==
    /\ pipe = "saved" /\ fn = "none"
    /\ SavedTracksBegin(run.user_id, PAGE_LIMIT, coll)
    /\ events' = Append(events, Status("saved_tracks"))
    /\ pipe' = "artists"
    /\ UNCHANGED <<now, run, playlist>>

\* Steps 3 and 4 up to the loop: fetch_user_top_artists.
PipeTopArtists(up) ==
    /\ pipe = "artists" /\ fn = "none"
    /\ DoFetchUserTopArtists(run.user_id, up)
    /\ run' = [run EXCEPT !.saved_tracks = ret, !.top_artists = ret', !.queue = ret']
    /\ events' = events \o <<Status("top_artists"), Status("artist_tracks")>>
    /\ pipe' = "artist_tracks"
    /\ UNCHANGED <<now, playlist>>

\* Variant in which a failed artist request ends the run with an error.
PipeArtistTracksAbort(up) ==
    /\ pipe = "artist_tracks" /\ fn = "none"
    /\ run.queue # <<>>
    /\ LET artist_id == Head(run.queue).id
       IN  IF artist_id = None
           THEN /\ run' = [run EXCEPT !.queue = Tail(run.queue)]
                /\ call' = "generate_playlist_logic"
                /\ UNCHANGED <<store, fn, frame, ret, reqs, arg, pipe, events>>
           ELSE /\ DoFetchArtistTopTracks(artist_id, up)
                /\ run' = [run EXCEPT !.queue = Tail(run.queue),
                                      !.artist_tracks = run.artist_tracks \o ret']
                /\ IF up.ok THEN UNCHANGED <<pipe, events>>
                   ELSE /\ pipe' = "idle"
                        /\ events' = Append(events, Error("hiccup"))
    /\ UNCHANGED <<now, playlist>>

\* Step 4, one iteration: fetch_artist_top_tracks for the next artist.
PipeArtistTracks(up) ==
    /\ pipe = "artist_tracks" /\ fn = "none"
    /\ run.queue # <<>>
    /\ LET artist_id == Head(run.queue).id
       IN  IF artist_id = None
           THEN /\ run' = [run EXCEPT !.queue = Tail(run.queue)]
                /\ call' = "generate_playlist_logic"
                /\ UNCHANGED <<store, fn, frame, ret, reqs, arg>>
           ELSE /\ DoFetchArtistTopTracks(artist_id, up)
                /\ run' = [run EXCEPT !.queue = Tail(run.queue),
                                      !.artist_tracks = run.artist_tracks \o ret']
    /\ UNCHANGED <<now, pipe, playlist, events>>

\* Variant that also looks up at exactly the threshold.
PipeSimilarAtMost ==
    /\ pipe = "artist_tracks" /\ fn = "none"
    /\ run.queue = <<>>
    /\ IF Len(run.saved_tracks) <= SAVED_THRESHOLD
       THEN /\ SimilarBegin(run.top_tracks)
            /\ run' = [run EXCEPT !.lookup = TRUE]
            /\ events' = Append(events, Status("similar"))
       ELSE /\ call' = "generate_playlist_logic"
            /\ UNCHANGED <<store, fn, frame, ret, reqs, arg, run, events>>
    /\ pipe' = "consolidate"
    /\ UNCHANGED <<now, playlist>>

\* Step 5: similarity lookups, only below the saved-tracks threshold.
PipeSimilar ==
    /\ pipe = "artist_tracks" /\ fn = "none"
    /\ run.queue = <<>>
    /\ IF Len(run.saved_tracks) < SAVED_THRESHOLD
       THEN /\ SimilarBegin(run.top_tracks)
            /\ run' = [run EXCEPT !.lookup = TRUE]
            /\ events' = Append(events, Status("similar"))
       ELSE /\ call' = "generate_playlist_logic"
            /\ UNCHANGED <<store, fn, frame, ret, reqs, arg, run, events>>
    /\ pipe' = "consolidate"
    /\ UNCHANGED <<now, playlist>>

\* Variant whose union leaves out the similarity results.
PipeConsolidateNoSimilar(all_track_ids) ==
    /\ pipe = "consolidate" /\ fn = "none"
    /\ call' = "generate_playlist_logic"
    /\ LET similar_ids == IF run.lookup THEN ret ELSE {}
           top_ids == IdsOf(run.top_tracks)
           saved_ids == IdsOf(run.saved_tracks)
           artist_track_ids == IdsOf(run.artist_tracks)
           union == top_ids \cup saved_ids \cup artist_track_ids
       IN    /\ all_track_ids \in Orders(union)
             /\ run' = [run EXCEPT !.similar_ids = similar_ids,
                                   !.all_track_ids = all_track_ids]
             /\ IF all_track_ids = <<>>
                THEN /\ events' = Append(events, Error("not_enough_tracks"))
                     /\ pipe' = "idle"
                     /\ frame' = <<>>
                     /\ UNCHANGED combinedData
                ELSE /\ combinedData' = save_user_combined_tracks(
                                            combinedData, run.user_id, all_track_ids, now)
                     /\ events' = Append(events, Status("collected"))
                     /\ pipe' = "tempos"
                     /\ UNCHANGED frame
    /\ UNCHANGED <<userData, artistData, featData, recData, now, fn, ret,
                   reqs, arg, playlist>>

\* Step 6: the union, the early exit, save_user_combined_tracks.
PipeConsolidate(all_track_ids) ==
    /\ pipe = "consolidate" /\ fn = "none"
    /\ call' = "generate_playlist_logic"
    /\ LET similar_ids == IF run.lookup THEN ret ELSE {}
           top_ids == IdsOf(run.top_tracks)
           saved_ids == IdsOf(run.saved_tracks)
           artist_track_ids == IdsOf(run.artist_tracks)
           union == top_ids \cup saved_ids \cup artist_track_ids \cup similar_ids
       IN    /\ all_track_ids \in Orders(union)
             /\ run' = [run EXCEPT !.similar_ids = similar_ids,
                                   !.all_track_ids = all_track_ids]
             /\ IF all_track_ids = <<>>
                THEN /\ events' = Append(events, Error("not_enough_tracks"))
                     /\ pipe' = "idle"
                     /\ frame' = <<>>
                     /\ UNCHANGED combinedData
                ELSE /\ combinedData' = save_user_combined_tracks(
                                            combinedData, run.user_id, all_track_ids, now)
                     /\ events' = Append(events, Status("collected"))
                     /\ pipe' = "tempos"
                     /\ UNCHANGED frame
    /\ UNCHANGED <<userData, artistData, featData, recData, now, fn, ret,
                   reqs, arg, playlist>>

\* Step 7: fetch_missing_tempos_with_reccobeats.
PipeTempos ==
    /\ pipe = "tempos" /\ fn = "none"
    /\ TemposBegin(run.all_track_ids)
    /\ pipe' = "filter"
    /\ UNCHANGED <<now, run, playlist, events>>

\* Variant that reports done whenever a playlist call was issued.
PipeBuildAlwaysDone(created, added) ==
    /\ pipe = "filter" /\ fn = "none"
    /\ call' = "generate_playlist_logic"
    /\ LET tempo_data == ret
           filtered_ids == filter_tracks_by_tempo(run.all_track_ids, tempo_data,
                                                  run.cadence)
           built == build_playlist_with_tempo_data(filtered_ids, created, added)
       IN  /\ run' = [run EXCEPT !.tempo_data = tempo_data,
                                 !.filtered_ids = filtered_ids]
           /\ playlist' = built.calls
           /\ events' = events \o <<Status("bpm_locked")>> \o
                          (IF built.ok \/ built.calls # <<>> THEN <<Status("cooked"), Done>>
                           ELSE <<Error("hiccup")>>)
    /\ pipe' = "idle"
    /\ frame' = <<>>
    /\ UNCHANGED <<store, now, fn, ret, reqs, arg>>

\* Steps 9 to 11: filter, build the playlist, the terminal event.  Any
\* exception of build_playlist_with_tempo_data ends in the generic error:
\* the handler prints the exception's message (built.error) and yields the
\* fixed "hiccup" text.
PipeBuild(created, added) ==
    /\ pipe = "filter" /\ fn = "none"
    /\ call' = "generate_playlist_logic"
    /\ LET tempo_data == ret
           filtered_ids == filter_tracks_by_tempo(run.all_track_ids, tempo_data,
                                                  run.cadence)
           built == build_playlist_with_tempo_data(filtered_ids, created, added)
       IN  /\ run' = [run EXCEPT !.tempo_data = tempo_data,
                                 !.filtered_ids = filtered_ids]
           /\ playlist' = built.calls
           /\ events' = events \o <<Status("bpm_locked")>> \o
                          (IF built.ok THEN <<Status("cooked"), Done>>
                           ELSE <<Error("hiccup")>>)
    /\ pipe' = "idle"
    /\ frame' = <<>>
    /\ UNCHANGED <<store, now, fn, ret, reqs, arg>>

(***************************************************************************)
(* The request handler run again and again: generate_playlist_logic with   *)
(* every upstream outcome, the clock moving between runs                   *)
(***************************************************************************)
CADENCE_OPTIONS == {160}
TempoOf == [A |-> 1650, B |-> 1580, C |-> 1720, D |-> 1600]
TrueFeatures(chunk) == [i \in 1..Len(chunk) |-> Feature(chunk[i], TempoOf[chunk[i]])]

PipeTopTrackLists == {<<Track("A"), Track("B")>>}
PipeSavedCollections ==
    {<<SavedItem("B")>>, <<SavedItem("B"), SavedItem("C"), SavedItem("A")>>}
PipeTopArtistLists == {<<Artist(None), Artist("R1")>>}
PipeArtistTrackLists == {<<Track("C"), Track(None)>>}
PipeRecLists == {<<Rec("D")>>}

TrackIds == {"A", "B", "C", "D"}

\* Two of the orders list(set(...)) may give: ascending and descending.
Rank == [A |-> 1, B |-> 2, C |-> 3, D |-> 4]
PipeOrders(S) ==
    {o \in Orders(S) :
        \/ \A i \in 1..(Len(o) - 1) : Rank[o[i]] < Rank[o[i + 1]]
        \/ \A i \in 1..(Len(o) - 1) : Rank[o[i]] > Rank[o[i + 1]]}

CurrentChunk ==
    SubSeq(frame.missing_ids, frame.i + 1, Min(Len(frame.missing_ids), frame.i + CHUNK_SIZE))

\* A request is served after construction and after each move of the clock.
GenTopTracks ==
    /\ call \in {"init_db", "tick"}
    /\ \E u \in Users, cadence \in CADENCE_OPTIONS, up \in Outcomes(PipeTopTrackLists) :
        PipeTopTracks([id |-> u], cadence, up)

GenSavedTracks == \E coll \in PipeSavedCollections : PipeSavedTracks(coll)

GenTopArtists == \E up \in Outcomes(PipeTopArtistLists) : PipeTopArtists(up)

GenArtistTracks == \E up \in Outcomes(PipeArtistTrackLists) : PipeArtistTracks(up)

GenSimilarTrack ==
    /\ \E up \in {Content(l) : l \in PipeRecLists} \cup {RequestException} : SimilarTrack(up)
    /\ UNCHANGED <<now, pipe, run, playlist, events>>

GenTemposChunk ==
    /\ fn = "tempos"
    /\ \E up \in {Content(TrueFeatures(CurrentChunk)), Content(<<>>), RequestException} :
          TemposChunk(up)
    /\ UNCHANGED <<now, pipe, run, playlist, events>>

GenConsolidate ==
    \E all_track_ids \in UNION {PipeOrders(S) : S \in SUBSET TrackIds} :
        PipeConsolidate(all_track_ids)

GenBuild == \E created \in BOOLEAN, added \in 0..2 : PipeBuild(created, added)

Next ==
    \/ GenTopTracks
    \/ GenSavedTracks
    \/ StepSavedTracksPage
    \/ GenTopArtists
    \/ GenArtistTracks
    \/ PipeSimilar
    \/ GenSimilarTrack
    \/ StepSimilarReturn
    \/ GenConsolidate
    \/ PipeTempos
    \/ GenTemposChunk
    \/ GenBuild
    \/ Tick

Spec == Init /\ [][Next]_vars

(***************************************************************************)
(* C9: an empty filtered set ends the run in an error, with no playlist    *)
(***************************************************************************)
Finished == pipe = "idle" /\ events # <<>>
ReachedFilter == \E i \in 1..Len(events) : events[i] = Status("bpm_locked")
LastEvent == events[Len(events)]
InBand(tempo, cadence) == cadence * 10 <= tempo /\ tempo <= cadence * 10 + 90

\* C9: a run whose filtered identity set is empty ends with an error event
\* and has issued neither user_playlist_create nor playlist_add_items; a
\* playlist call is only ever issued by a run whose filtered set is non-empty.
C9_EmptyResultNoPlaylist ==
    /\ (Finished /\ ReachedFilter /\ run.filtered_ids = <<>>)
          => (LastEvent.type = "error" /\ playlist = <<>>)
    /\ (playlist # <<>>)
          => (Finished /\ ReachedFilter /\ run.filtered_ids # <<>>
              /\ playlist[1].api = "user_playlist_create")

\* Every candidate has a known tempo outside the band; the run ended in error.
C9_Witness ==
    /\ Finished /\ ReachedFilter
    /\ run.all_track_ids # <<>>
    /\ \A id \in Range(run.all_track_ids) :
          /\ id \in DOMAIN run.tempo_data
          /\ run.tempo_data[id].fetch_status = "ok"
          /\ run.tempo_data[id].tempo # NoTempo
          /\ ~InBand(run.tempo_data[id].tempo, run.cadence)
    /\ run.filtered_ids = <<>>
    /\ LastEvent.type = "error"
    /\ playlist = <<>>

(***************************************************************************)
(* The scenario of one run from an empty store with a non-failing upstream *)
(***************************************************************************)
E2ETopTracks ==
    /\ call = "init_db"
    /\ PipeTopTracks([id |-> "u1"], 160, Items(<<Track("A"), Track("B")>>))

E2ESavedTracks == PipeSavedTracks(<<SavedItem("B"), SavedItem("C")>>)

E2ESavedTracksPage ==
    /\ SavedTracksPage(TRUE)
    /\ UNCHANGED <<now, pipe, run, playlist, events>>

E2ETopArtists == PipeTopArtists(Items(<<Artist("R1")>>))

E2EArtistTracks == PipeArtistTracks(Items(<<>>))

E2ESimilarTrack ==
    /\ SimilarTrack(Content(<<Rec("D")>>))
    /\ UNCHANGED <<now, pipe, run, playlist, events>>

E2EConsolidate ==
    \E all_track_ids \in UNION {Orders(S) : S \in SUBSET TrackIds} :
        PipeConsolidate(all_track_ids)

E2ETemposChunk ==
    /\ fn = "tempos"
    /\ TemposChunk(Content(TrueFeatures(CurrentChunk)))
    /\ UNCHANGED <<now, pipe, run, playlist, events>>

E2EBuild == PipeBuild(TRUE, Len(run.all_track_ids))

NextE2E ==
    \/ E2ETopTracks
    \/ E2ESavedTracks
    \/ E2ESavedTracksPage
    \/ E2ETopArtists
    \/ E2EArtistTracks
    \/ PipeSimilar
    \/ E2ESimilarTrack
    \/ StepSimilarReturn
    \/ E2EConsolidate
    \/ PipeTempos
    \/ E2ETemposChunk
    \/ E2EBuild

SpecE2E == Init /\ [][NextE2E]_vars

AddedItems ==
    UNION {Range(playlist[k].items) :
              k \in {j \in 1..Len(playlist) : playlist[j].api = "playlist_add_items"}}

\* C8: in the scenario the unioned candidate set is {A,B,C,D} from the
\* moment it is formed, and the identities passed to playlist creation, and
\* added to the created playlist, are exactly A and D.
C8_EndToEnd ==
    /\ (pipe \in {"tempos", "filter"} \/ Finished)
          => /\ Range(run.all_track_ids) = {"A", "B", "C", "D"}
             /\ Len(run.all_track_ids) = 4
    /\ Finished
          => /\ Range(run.filtered_ids) = {"A", "D"}
             /\ Len(run.filtered_ids) = 2
             /\ playlist # <<>>
             /\ playlist[1].api = "user_playlist_create"
             /\ AddedItems = {"spotify:track:A", "spotify:track:D"}
             /\ LastEvent = Done

C8_Witness ==
    /\ Finished
    /\ userData # EmptyTable
    /\ run.all_track_ids = <<"D", "C", "B", "A">>
    /\ run.filtered_ids = <<"D", "A">>
    /\ LastEvent = Done

(***************************************************************************)
(* filter_tracks_by_tempo applied to feature maps read back from the store *)
(***************************************************************************)
FilterRowKinds ==
    {[kind |-> "absent", tempo |-> NoTempo], [kind |-> "no_data", tempo |-> NoTempo],
     [kind |-> "ok", tempo |-> NoTempo]}
    \cup {[kind |-> "ok", tempo |-> t] : t \in {1599, 1600, 1690, 1691}}

WithRow(tbl, id, k) ==
    IF k.kind = "absent" THEN tbl
    ELSE IF k.kind = "no_data" THEN mark_tracks_no_data(tbl, <<id>>, 0)
    ELSE save_track_features(tbl, <<Feature(id, k.tempo)>>, 0)

FilterTrackIds == {<<"A", "B">>, <<"B", "A">>, <<"A", "C", "B", "A">>}
FilterCadences == {160, 161}

InitFilter ==
    /\ userData = EmptyTable
    /\ artistData = EmptyTable
    /\ \E ka \in FilterRowKinds, kb \in FilterRowKinds :
          featData = WithRow(WithRow(EmptyTable, "A", ka), "B", kb)
    /\ recData = EmptyTable
    /\ combinedData = EmptyTable
    /\ now = 0
    /\ pipe = "idle"
    /\ run = <<>>
    /\ fn = "none"
    /\ frame = <<>>
    /\ call = "init_db"
    /\ ret = <<>>
    /\ reqs = <<>>
    /\ playlist = <<>>
    /\ events = <<>>
    /\ arg = <<>>

CallFilterTracksByTempo ==
    /\ Idle
    /\ \E track_ids \in FilterTrackIds, cadence_bpm \in FilterCadences :
          LET tempo_data == load_track_features(featData, track_ids)
          IN  /\ arg' = <<track_ids, tempo_data, cadence_bpm>>
              /\ ret' = filter_tracks_by_tempo(track_ids, tempo_data, cadence_bpm)
    /\ call' = "filter_tracks_by_tempo"
    /\ UNCHANGED <<store, now, pipe, run, fn, frame, reqs, playlist, events>>

SpecFilter == InitFilter /\ [][CallFilterTracksByTempo]_vars

Retained(id) == \E i \in 1..Len(ret) : ret[i] = id

\* C7: filter_tracks_by_tempo retains an identity iff the feature map has an
\* entry for it with fetch_status ok, a tempo, and cadence <= tempo <=
\* cadence + 9; for cadence 160 the tempos 160.0 and 169.0 are retained and
\* 159.9 and 169.1 are not.
C7_TempoFilter ==
    call = "filter_tracks_by_tempo" =>
        LET track_ids == arg[1]
            tempo_data == arg[2]
            cadence_bpm == arg[3]
        IN  /\ Range(ret) \subseteq Range(track_ids)
            /\ \A id \in Range(track_ids) :
                  Retained(id) <=>
                      /\ id \in DOMAIN tempo_data
                      /\ tempo_data[id].fetch_status = "ok"
                      /\ tempo_data[id].tempo # NoTempo
                      /\ InBand(tempo_data[id].tempo, cadence_bpm)
            /\ cadence_bpm = 160 =>
                  \A id \in Range(track_ids) \cap DOMAIN tempo_data :
                      /\ tempo_data[id].tempo \in {1600, 1690} => Retained(id)
                      /\ tempo_data[id].tempo \in {1599, 1691} => ~Retained(id)

C7_Witness ==
    /\ call = "filter_tracks_by_tempo"
    /\ arg[3] = 160
    /\ arg[1] = <<"A", "B">>
    /\ DOMAIN arg[2] = {"A", "B"}
    /\ arg[2]["A"].tempo = 1690
    /\ arg[2]["B"].tempo = 1691
    /\ ret = <<"A">>

(***************************************************************************)
(* is_stale over a record saved at some time and read at later times       *)
(***************************************************************************)
StaleHorizon == 62

StaleSave ==
    /\ Idle
    /\ userData' = save_user_spotify_data(userData, "u1", "top_tracks", <<Track("A")>>, now)
    /\ call' = "save_user_spotify_data"
    /\ arg' = <<>>
    /\ ret' = <<>>
    /\ UNCHANGED <<artistData, featData, recData, combinedData, now, pipe, run, fn,
                   frame, reqs, playlist, events>>

StaleAdvance ==
    /\ Idle
    /\ now < StaleHorizon
    /\ now' = now + 1
    /\ call' = "tick"
    /\ UNCHANGED <<store, pipe, run, fn, frame, ret, reqs, playlist, events, arg>>

\* is_stale on the stored record's timestamp, or on one later than the clock.
StaleQuery ==
    /\ Idle
    /\ LET cached == load_user_spotify_data(userData, "u1", "top_tracks")
           stamps == {cached[i].last_fetched : i \in 1..Len(cached)}
                        \cup {now + 1, now + CACHE_TTL_DAYS + 1}
       IN  \E last_fetched \in stamps :
              /\ arg' = <<last_fetched>>
              /\ ret' = is_stale(last_fetched, CACHE_TTL_DAYS, now)
    /\ call' = "is_stale"
    /\ UNCHANGED <<store, now, pipe, run, fn, frame, reqs, playlist, events>>

NextStale ==
    \/ StaleSave
    \/ StaleAdvance
    \/ StaleQuery

SpecStale == Init /\ [][NextStale]_vars

\* C10: with the 30-day TTL, is_stale of a record fetched at T is false at
\* every query time in [T, T+30d) and true at every time after T+30d; it is
\* true exactly when now - T > 30d, so false at T+30d itself and false for
\* a T in the future.
C10_StalenessBoundary ==
    call = "is_stale" =>
        LET T == arg[1]
        IN  /\ ret = (now - T > CACHE_TTL_DAYS)
            /\ (T <= now /\ now < T + CACHE_TTL_DAYS) => ret = FALSE
            /\ now > T + CACHE_TTL_DAYS => ret = TRUE
            /\ now = T + CACHE_TTL_DAYS => ret = FALSE
            /\ T > now => ret = FALSE

\* The stored record is queried exactly 30 days after it was fetched.
C10_Witness ==
    /\ call = "is_stale"
    /\ load_user_spotify_data(userData, "u1", "top_tracks") # <<>>
    /\ load_user_spotify_data(userData, "u1", "top_tracks")[1].last_fetched = arg[1]
    /\ now = arg[1] + CACHE_TTL_DAYS
    /\ ret = FALSE

(***************************************************************************)
(* The cache functions called directly: saves and loads of the five kinds  *)
(***************************************************************************)
DataKeys == {"top_tracks", "saved_tracks"}
StorePayloads == {<<Track("A")>>, <<Track("A"), Track(None), Track("A")>>}
StoreRecLists == {<<>>, <<Rec("D"), [href |-> <<>>]>>}
StoreTrackIdLists == {<<"A">>, <<"B", "A">>}
StoreFeatureLists ==
    {<<FeatA>>, <<FeatA, FeatB>>, <<FeatB, Feature("B", 1580)>>, <<FeatNoHref, FeatC>>}
StoreMarkLists == {<<"A">>, <<"B", "A">>}
StoreLoadLists == {<<>>, <<"B">>, <<"A", "B", "C">>}

CallSaveUserSpotifyData ==
    /\ Idle
    /\ \E u \in Users, k \in DataKeys, payload \in StorePayloads :
          /\ userData' = save_user_spotify_data(userData, u, k, payload, now)
          /\ arg' = <<u, k, payload>>
    /\ call' = "save_user_spotify_data"
    /\ ret' = <<>>
    /\ UNCHANGED <<artistData, featData, recData, combinedData, now, pipe, run, fn,
                   frame, reqs, playlist, events>>

CallLoadUserSpotifyData ==
    /\ Idle
    /\ \E u \in Users, k \in DataKeys :
          /\ ret' = load_user_spotify_data(userData, u, k)
          /\ arg' = <<u, k>>
    /\ call' = "load_user_spotify_data"
    /\ UNCHANGED <<store, now, pipe, run, fn, frame, reqs, playlist, events>>

CallSaveArtistTopTracks ==
    /\ Idle
    /\ \E a \in ArtistIds, payload \in StorePayloads :
          /\ artistData' = save_artist_top_tracks(artistData, a, payload, now)
          /\ arg' = <<a, payload>>
    /\ call' = "save_artist_top_tracks"
    /\ ret' = <<>>
    /\ UNCHANGED <<userData, featData, recData, combinedData, now, pipe, run, fn,
                   frame, reqs, playlist, events>>

CallLoadArtistTopTracks ==
    /\ Idle
    /\ \E a \in ArtistIds :
          /\ ret' = load_artist_top_tracks(artistData, a)
          /\ arg' = <<a>>
    /\ call' = "load_artist_top_tracks"
    /\ UNCHANGED <<store, now, pipe, run, fn, frame, reqs, playlist, events>>

CallSaveRecommendations ==
    /\ Idle
    /\ \E seed \in {"A"}, recs_list \in StoreRecLists :
          /\ recData' = save_reccobeats_recommendations(recData, seed, recs_list, now)
          /\ arg' = <<seed, recs_list>>
    /\ call' = "save_reccobeats_recommendations"
    /\ ret' = <<>>
    /\ UNCHANGED <<userData, artistData, featData, combinedData, now, pipe, run, fn,
                   frame, reqs, playlist, events>>

CallLoadRecommendations ==
    /\ Idle
    /\ \E seed \in {"A"} :
          /\ ret' = load_reccobeats_recommendations(recData, seed)
          /\ arg' = <<seed>>
    /\ call' = "load_reccobeats_recommendations"
    /\ UNCHANGED <<store, now, pipe, run, fn, frame, reqs, playlist, events>>

CallSaveUserCombinedTracks ==
    /\ Idle
    /\ \E u \in Users, track_ids \in StoreTrackIdLists :
          /\ combinedData' = save_user_combined_tracks(combinedData, u, track_ids, now)
          /\ arg' = <<u, track_ids>>
    /\ call' = "save_user_combined_tracks"
    /\ ret' = <<>>
    /\ UNCHANGED <<userData, artistData, featData, recData, now, pipe, run, fn,
                   frame, reqs, playlist, events>>

CallLoadUserCombinedTracks ==
    /\ Idle
    /\ \E u \in Users :
          /\ ret' = load_user_combined_tracks(combinedData, u)
          /\ arg' = <<u>>
    /\ call' = "load_user_combined_tracks"
    /\ UNCHANGED <<store, now, pipe, run, fn, frame, reqs, playlist, events>>

CallSaveTrackFeatures ==
    /\ Idle
    /\ \E feature_objs \in StoreFeatureLists :
          /\ featData' = save_track_features(featData, feature_objs, now)
          /\ arg' = <<feature_objs>>
    /\ call' = "save_track_features"
    /\ ret' = <<>>
    /\ UNCHANGED <<userData, artistData, recData, combinedData, now, pipe, run, fn,
                   frame, reqs, playlist, events>>

CallMarkTracksNoData ==
    /\ Idle
    /\ \E spotify_ids \in StoreMarkLists :
          /\ featData' = mark_tracks_no_data(featData, spotify_ids, now)
          /\ arg' = <<spotify_ids>>
    /\ call' = "mark_tracks_no_data"
    /\ ret' = <<>>
    /\ UNCHANGED <<userData, artistData, recData, combinedData, now, pipe, run, fn,
                   frame, reqs, playlist, events>>

CallLoadTrackFeatures ==
    /\ Idle
    /\ \E spotify_ids \in StoreLoadLists :
          /\ ret' = load_track_features(featData, spotify_ids)
          /\ arg' = <<spotify_ids>>
    /\ call' = "load_track_features"
    /\ UNCHANGED <<store, now, pipe, run, fn, frame, reqs, playlist, events>>

NextStore ==
    \/ CallSaveUserSpotifyData
    \/ CallLoadUserSpotifyData
    \/ CallSaveArtistTopTracks
    \/ CallLoadArtistTopTracks
    \/ CallSaveRecommendations
    \/ CallLoadRecommendations
    \/ CallSaveUserCombinedTracks
    \/ CallLoadUserCombinedTracks
    \/ CallSaveTrackFeatures
    \/ CallMarkTracksNoData
    \/ CallLoadTrackFeatures

SpecStore == Init /\ [][NextStore]_vars

\* The last record of feature_objs whose href names id.
LastNaming(feature_objs, id) ==
    LET ks == {k \in 1..Len(feature_objs) : id \in NamedBy(<<feature_objs[k]>>)}
    IN  feature_objs[CHOOSE k \in ks : \A j \in ks : j <= k]

\* C11: a load that directly follows a save of the same key returns the
\* saved payload, element for element, with count equal to the payload's
\* length (the combined-tracks row stores that count); for track features
\* the load returns, for each requested identity a saved record names, that
\* raw record with fetch_status ok and its tempo (null when the record has
\* no numeric tempo).  This holds whatever the key held before the save.
C11_SaveLoadRoundTrip ==
    [][ /\ (call = "save_user_spotify_data" /\ call' = "load_user_spotify_data"
            /\ arg' = <<arg[1], arg[2]>>)
           => ret' = <<[payload |-> arg[3], count |-> Len(arg[3]), last_fetched |-> now]>>
        /\ (call = "save_artist_top_tracks" /\ call' = "load_artist_top_tracks"
            /\ arg' = <<arg[1]>>)
           => ret' = <<[payload |-> arg[2], count |-> Len(arg[2]), last_fetched |-> now]>>
        /\ (call = "save_reccobeats_recommendations"
            /\ call' = "load_reccobeats_recommendations" /\ arg' = <<arg[1]>>)
           => ret' = <<[recs_json |-> arg[2], count |-> Len(arg[2]), last_fetched |-> now]>>
        /\ (call = "save_user_combined_tracks" /\ call' = "load_user_combined_tracks"
            /\ arg' = <<arg[1]>>)
           => /\ ret' = <<arg[2]>>
              /\ combinedData[arg[1]].count = Len(arg[2])
        /\ (call = "save_track_features" /\ call' = "load_track_features")
           => \A id \in Range(arg'[1]) \cap NamedBy(arg[1]) :
                 LET obj == LastNaming(arg[1], id)
                 IN  /\ id \in DOMAIN ret'
                     /\ ret'[id].features = <<obj>>
                     /\ ret'[id].fetch_status = "ok"
                     /\ ret'[id].last_fetched = now
                     /\ ret'[id].tempo = IF obj.tempo >= 0 THEN obj.tempo ELSE NoTempo
      ]_vars

\* A three-element payload with a repeated element has just been loaded
\* back, next to a stored feature row and a stored combined list.
C11_Witness ==
    /\ call = "load_user_spotify_data"
    /\ arg = <<"u1", "top_tracks">>
    /\ ret # <<>>
    /\ ret[1].payload = <<Track("A"), Track(None), Track("A")>>
    /\ ret[1].count = 3
    /\ load_track_features(featData, <<"B">>) # <<>>
    /\ load_user_combined_tracks(combinedData, "u1") = <<<<"B", "A">>>>

(***************************************************************************)
(* Saves repeated over time on a store that already holds the keys         *)
(***************************************************************************)
UpsertPayloads ==
    [top_tracks |-> {<<Track("A")>>}, saved_tracks |-> StorePayloads]
UpsertTrackIdLists == {<<"B", "A">>}

\* The store after init_db and one save of top_tracks and of the combined
\* list, both at time 0.
InitUpsert ==
    /\ userData = save_user_spotify_data(EmptyTable, "u1", "top_tracks", <<Track("A")>>, 0)
    /\ artistData = EmptyTable
    /\ featData = EmptyTable
    /\ recData = EmptyTable
    /\ combinedData = save_user_combined_tracks(EmptyTable, "u1", <<"B", "A">>, 0)
    /\ now = 0
    /\ pipe = "idle"
    /\ run = <<>>
    /\ fn = "none"
    /\ frame = <<>>
    /\ call = "init_db"
    /\ ret = <<>>
    /\ reqs = <<>>
    /\ playlist = <<>>
    /\ events = <<>>
    /\ arg = <<>>

UpsertSaveUserSpotifyData ==
    /\ Idle
    /\ \E u \in Users, k \in DataKeys :
          \E payload \in UpsertPayloads[k] :
             /\ userData' = save_user_spotify_data(userData, u, k, payload, now)
             /\ arg' = <<u, k, payload>>
    /\ call' = "save_user_spotify_data"
    /\ ret' = <<>>
    /\ UNCHANGED <<artistData, featData, recData, combinedData, now, pipe, run, fn,
                   frame, reqs, playlist, events>>

UpsertSaveUserCombinedTracks ==
    /\ Idle
    /\ \E u \in Users, track_ids \in UpsertTrackIdLists :
          /\ combinedData' = save_user_combined_tracks(combinedData, u, track_ids, now)
          /\ arg' = <<u, track_ids>>
    /\ call' = "save_user_combined_tracks"
    /\ ret' = <<>>
    /\ UNCHANGED <<userData, artistData, featData, recData, now, pipe, run, fn,
                   frame, reqs, playlist, events>>

NextUpsert ==
    \/ UpsertSaveUserSpotifyData
    \/ CallLoadUserSpotifyData
    \/ UpsertSaveUserCombinedTracks
    \/ CallLoadUserCombinedTracks
    \/ Tick

SpecUpsert == InitUpsert /\ [][NextUpsert]_vars

\* C12: a save of the payload its key already holds leaves the table with
\* the same keys, the key's payload and count as they were and its
\* last_fetched not earlier than before; the rows of all other keys and the
\* other tables are untouched.  Checked for save_user_spotify_data and
\* save_user_combined_tracks.
C12_IdempotentUpsert ==
    [][ /\ (/\ call' = "save_user_spotify_data"
            /\ <<arg'[1], arg'[2]>> \in DOMAIN userData
            /\ load_user_spotify_data(userData, arg'[1], arg'[2])[1].payload = arg'[3])
           => LET before == load_user_spotify_data(userData, arg'[1], arg'[2])[1]
                  after == load_user_spotify_data(userData', arg'[1], arg'[2])
              IN  /\ DOMAIN userData' = DOMAIN userData
                  /\ Len(after) = 1
                  /\ after[1].payload = before.payload
                  /\ after[1].count = before.count
                  /\ after[1].last_fetched >= before.last_fetched
                  /\ \A k \in DOMAIN userData \ {<<arg'[1], arg'[2]>>} :
                        userData'[k] = userData[k]
                  /\ UNCHANGED <<artistData, featData, recData, combinedData>>
        /\ (/\ call' = "save_user_combined_tracks"
            /\ arg'[1] \in DOMAIN combinedData
            /\ load_user_combined_tracks(combinedData, arg'[1]) = <<arg'[2]>>)
           => /\ DOMAIN combinedData' = DOMAIN combinedData
              /\ load_user_combined_tracks(combinedData', arg'[1])
                    = load_user_combined_tracks(combinedData, arg'[1])
              /\ combinedData'[arg'[1]].count = combinedData[arg'[1]].count
              /\ combinedData'[arg'[1]].last_fetched >= combinedData[arg'[1]].last_fetched
              /\ \A k \in DOMAIN combinedData \ {arg'[1]} :
                    combinedData'[k] = combinedData[k]
              /\ UNCHANGED <<userData, artistData, featData, recData>>
      ]_vars

\* top_tracks, which only ever receives one payload here and was stored at
\* time 0, has just been saved again after the clock moved; the other key
\* and the combined list still carry their time-0 rows.
C12_Witness ==
    /\ call = "save_user_spotify_data"
    /\ arg = <<"u1", "top_tracks", <<Track("A")>>>>
    /\ now = CACHE_TTL_DAYS
    /\ userData[<<"u1", "top_tracks">>].last_fetched = now
    /\ userData[<<"u1", "top_tracks">>].count = 1
    /\ <<"u1", "saved_tracks">> \in DOMAIN userData
    /\ userData[<<"u1", "saved_tracks">>].last_fetched = 0
    /\ combinedData["u1"].last_fetched = 0

\* C13: load_track_features returns a map whose keys are exactly the
\* requested identities that have a row; an identity without a row is not a
\* key, and a row saved without a tempo is in the map with a null tempo.
C13_LoadManyKeys ==
    call = "load_track_features" =>
        /\ DOMAIN ret = Range(arg[1]) \cap DOMAIN featData
        /\ \A id \in DOMAIN ret :
              /\ ret[id].tempo = featData[id].tempo
              /\ ret[id].fetch_status = featData[id].fetch_status
              /\ ret[id].last_fetched = featData[id].last_fetched

\* A, B and C were requested: C was never fetched and is not a key, B was
\* saved without a tempo and is a key with a null tempo.
C13_Witness ==
    /\ call = "load_track_features"
    /\ arg = <<<<"A", "B", "C">>>>
    /\ "C" \notin DOMAIN featData
    /\ DOMAIN ret = {"A", "B"}
    /\ ret["B"].tempo = NoTempo
    /\ ret["B"].fetch_status = "ok"
    /\ ret["B"].features = <<FeatB>>

\* C14: every track-feature row has fetch_status ok or no_data; a row with
\* a tempo has fetch_status ok, and a row with fetch_status no_data has
\* neither a tempo nor raw features.
C14_FeatureRecordInvariant ==
    \A id \in DOMAIN featData :
        /\ featData[id].fetch_status \in {"ok", "no_data"}
        /\ featData[id].tempo # NoTempo => featData[id].fetch_status = "ok"
        /\ featData[id].fetch_status = "no_data"
              => /\ featData[id].tempo = NoTempo
                 /\ featData[id].features_json = <<>>

\* B's row can only come from the save of <<FeatA, FeatB>>, which stored A
\* as ok with a tempo; A has since been marked no_data.
C14_Witness ==
    /\ call = "mark_tracks_no_data"
    /\ arg = <<<<"A">>>>
    /\ {"A", "B"} \subseteq DOMAIN featData
    /\ featData["B"].fetch_status = "ok"
    /\ featData["B"].tempo = NoTempo
    /\ featData["A"].fetch_status = "no_data"
    /\ featData["A"].tempo = NoTempo
    /\ featData["A"].features_json = <<>>

(***************************************************************************)
(* C15: the reasons of the two terminal failures                           *)
(***************************************************************************)
\* C15 (as claimed): a finished run whose unioned candidate set is empty
\* ends with the 'not enough tracks' error, and a finished run whose
\* candidate set is non-empty but whose filtered set is empty ends with an
\* error carrying the 'no tracks matched' reason.
C15_DistinctReasons ==
    Finished =>
        /\ run.all_track_ids = <<>> => LastEvent = Error("not_enough_tracks")
        /\ (ReachedFilter /\ run.all_track_ids # <<>> /\ run.filtered_ids = <<>>)
              => LastEvent = Error("No tracks matched that cadence.")

(***************************************************************************)
(* C16: upstream fetch failures inside a run                               *)
(***************************************************************************)
\* The step issues an upstream fetch that fails.
RunFailedStep ==
    /\ call' \in {"fetch_user_top_tracks", "fetch_user_saved_tracks",
                 "fetch_user_top_artists", "fetch_artist_top_tracks",
                 "fetch_similar_tracks_for_top_tracks",
                 "fetch_missing_tempos_with_reccobeats"}
    /\ (call' # call \/ Len(reqs') # Len(reqs))
    /\ reqs' # <<>>
    /\ ~reqs'[Len(reqs')].ok

\* C16: a step of a run in which an upstream fetch fails (top tracks, a
\* saved-tracks page, top artists, an artist's top tracks, a seed's
\* recommendations, a tempo chunk) does not end the run and emits no error
\* event, and it keeps what the other units delivered: the tracks of the
\* earlier pages, the artist tracks and similar ids collected so far, the
\* rows written for other chunks.  A run ends in an error only with an empty
\* union or after the filter, and every run with a non-empty union reaches
\* the filter.
C16_FailureDoesNotAbort ==
    /\ [][ RunFailedStep =>
              /\ pipe' # "idle"
              /\ \A i \in 1..Len(events') : events'[i].type = "status"
              /\ call' = "fetch_user_saved_tracks" => ret' = frame.tracks
              /\ call' = "fetch_artist_top_tracks"
                    => run'.artist_tracks = run.artist_tracks
              /\ call' = "fetch_similar_tracks_for_top_tracks"
                    => frame'.similar_ids = frame.similar_ids
              /\ call' = "fetch_missing_tempos_with_reccobeats" => store' = store
         ]_vars
    /\ [](Finished => (run.all_track_ids = <<>> \/ ReachedFilter))
    /\ []((Finished /\ LastEvent.type = "error" /\ ~ReachedFilter)
             => run.all_track_ids = <<>>)

\* The top-tracks request failed (nothing was stored and the run has no top
\* tracks) and a tempo chunk failed, yet the run went on to filter the saved
\* tracks and created a playlist.
C16_Witness ==
    /\ Finished
    /\ LastEvent = Done
    /\ run.top_tracks = <<>>
    /\ <<"u1", "top_tracks">> \notin DOMAIN userData
    /\ call = "generate_playlist_logic"
    /\ \E k \in 1..Len(reqs) : reqs[k].api = "audio-features" /\ ~reqs[k].ok
    /\ run.filtered_ids = <<"A">>
    /\ playlist # <<>>

(***************************************************************************)
(* C19, C20: the requests and the result of one reconciler call            *)
(***************************************************************************)
\* The reconciler call on a non-empty list has returned.
TemposReturned ==
    /\ InTempos
    /\ fn = "none"
    /\ arg[1] # <<>>

\* When the call began, the store had no row for id or a row older than the
\* TTL.
AbsentOrStaleAtCall(id) ==
    \/ id \notin DOMAIN frame.cached_data
    \/ /\ frame.cached_data[id].fetch_status \in {"ok", "no_data"}
       /\ now - frame.cached_data[id].last_fetched > CACHE_TTL_DAYS

\* The places (request, position) at which the call's requests carry id.
CarriedAt(id) ==
    {p \in (1..Len(reqs)) \X (1..CHUNK_SIZE) :
        p[2] <= Len(reqs[p[1]].arg) /\ reqs[p[1]].arg[p[2]] = id}

\* C19: chunking of the retry set.  When a reconciler call has returned,
\* every identity of its input that was absent from the store or stale
\* (status 'ok' or 'no_data') when the call began is carried by exactly one
\* of the call's batch requests, once, and no request of a reconciler call
\* carries more than CHUNK_SIZE identities (40 in the source).
C19_RetrySetChunked ==
    /\ TemposReturned =>
          \A id \in Range(frame.track_ids) :
              AbsentOrStaleAtCall(id) => Cardinality(CarriedAt(id)) = 1
    /\ InTempos => \A k \in 1..Len(reqs) : Len(reqs[k].arg) <= CHUNK_SIZE

\* A call on three identities, one of them stale 'no_data', that needed two
\* requests: a full chunk and the remainder.
C19_Witness ==
    /\ TemposReturned
    /\ Len(reqs) = 2
    /\ Len(reqs[1].arg) = CHUNK_SIZE
    /\ Len(reqs[2].arg) = 1
    /\ \E id \in Range(frame.track_ids) :
          /\ id \in DOMAIN frame.cached_data
          /\ frame.cached_data[id].fetch_status = "no_data"
          /\ AbsentOrStaleAtCall(id)
          /\ Cardinality(CarriedAt(id)) = 1

\* C20 (as claimed): complete result map.  When a reconciler call has
\* returned and none of its chunk requests failed (also when it issued no
\* request at all), the returned map has an entry for every identity of the
\* input.
C20_CompleteResultMap ==
    (InTempos /\ fn = "none" /\ \A k \in 1..Len(reqs) : reqs[k].ok) =>
        \A id \in Range(arg[1]) : id \in DOMAIN ret

(***************************************************************************)
(* Two reconciler calls running at once on one store (SpecConc).  Each     *)
(* call is cut where the code leaves the database: after the first         *)
(* load_track_features, after each request, after the transaction of       *)
(* save_track_features, after the transaction of mark_tracks_no_data, and  *)
(* before the last load_track_features.  frame holds the locals of each    *)
(* call, run the table the calls found, reqs the requests of both calls.   *)
(***************************************************************************)
Procs == {1, 2}

\* What the upstream holds, the same for every request: a tempo for A, a
\* record without tempo for B, nothing for C.
ConcUpstream == [A |-> <<1650>>, B |-> <<NoTempo>>, C |-> <<>>]

\* The response to a request for chunk: one record per identity the upstream
\* holds, in the order asked.
ConcFeatures(chunk) ==
    LET held == SelectSeq(chunk, LAMBDA id : ConcUpstream[id] # <<>>)
    IN  [i \in 1..Len(held) |-> Feature(held[i], ConcUpstream[held[i]][1])]

\* The chunk loop run to its end without a failing request.
RECURSIVE ReconcileFrom(_, _, _)
ReconcileFrom(tbl, missing_ids, ts) ==
    IF missing_ids = <<>> THEN tbl
    ELSE LET n == Min(Len(missing_ids), CHUNK_SIZE)
             chunk == SubSeq(missing_ids, 1, n)
         IN  ReconcileFrom(ReconcileChunk(tbl, chunk, Content(ConcFeatures(chunk)), ts),
                           SubSeq(missing_ids, n + 1, Len(missing_ids)), ts)

\* track_features after one whole call of the reconciler, run alone.
SequentialRun(tbl, track_ids, ts) ==
    IF track_ids = <<>> THEN tbl
    ELSE ReconcileFrom(tbl,
                       MissingIds(track_ids, load_track_features(tbl, track_ids), ts),
                       ts)

ConcIdLists == {<<"A", "B", "C">>, <<"C", "B">>, <<"B", "A">>, <<"C">>}

\* Tables earlier calls left: rows written on day 0 from what the upstream
\* held then (stale on day 31) and rows written on day 1 from what it holds
\* now (not stale on day 31).
ConcOldTable == save_track_features(EmptyTable, <<Feature("C", 1700), Feature("A", 1500)>>, 0)
ConcTables ==
    {EmptyTable,
     ConcOldTable,
     ReconcileFrom(EmptyTable, <<"B", "C">>, 1),
     ReconcileFrom(ConcOldTable, <<"B">>, 1)}

ConcIdleFrame ==
    [pc |-> "idle", track_ids |-> <<>>, cached_data |-> <<>>, missing_ids |-> <<>>,
     i |-> 0, content |-> <<>>, ret |-> <<>>, failed |-> FALSE]

InitConc ==
    /\ featData \in ConcTables
    /\ run = [table |-> featData]
    /\ userData = EmptyTable
    /\ artistData = EmptyTable
    /\ recData = EmptyTable
    /\ combinedData = EmptyTable
    /\ now = MaxTime
    /\ pipe = "idle"
    /\ fn = "none"
    /\ frame = [p \in Procs |-> ConcIdleFrame]
    /\ call = "init_db"
    /\ ret = <<>>
    /\ reqs = <<>>
    /\ playlist = <<>>
    /\ events = <<>>
    /\ arg = <<>>

ConcChunk(f) ==
    SubSeq(f.missing_ids, f.i + 1, Min(Len(f.missing_ids), f.i + CHUNK_SIZE))

\* The loop moves to the next chunk, or leaves for the last load.
ConcAdvance(f) ==
    [f EXCEPT !.i = f.i + CHUNK_SIZE,
              !.content = <<>>,
              !.pc = IF f.i + CHUNK_SIZE >= Len(f.missing_ids)
                     THEN "reload" ELSE "request"]

ConcUnchanged ==
    UNCHANGED <<userData, artistData, recData, combinedData, now, pipe, run, fn,
                ret, playlist, events>>

\* The call begins: early returns, first load, missing_ids.
ConcBegin(p, track_ids) ==
    /\ frame[p].pc = "idle"
    /\ LET cached_data == load_track_features(featData, track_ids)
           missing_ids == MissingIds(track_ids, cached_data, now)
       IN  frame' = [frame EXCEPT ![p] =
                        [pc |-> IF missing_ids = <<>> THEN "done" ELSE "request",
                         track_ids |-> track_ids, cached_data |-> cached_data,
                         missing_ids |-> missing_ids, i |-> 0, content |-> <<>>,
                         ret |-> IF missing_ids = <<>> THEN cached_data ELSE <<>>,
                         failed |-> FALSE]]
    /\ call' = "fetch_missing_tempos_with_reccobeats"
    /\ arg' = <<p>>
    /\ UNCHANGED <<featData, reqs>>
    /\ ConcUnchanged

\* The request of the current chunk: answered, or RequestException.
ConcRequest(p, up) ==
    /\ frame[p].pc = "request"
    /\ reqs' = Append(reqs, FeaturesReq(ConcChunk(frame[p]), up))
    /\ frame' = [frame EXCEPT ![p] =
                    IF up.ok /\ up.list
                    THEN [frame[p] EXCEPT !.pc = "save", !.content = up.content]
                    ELSE ConcAdvance([frame[p] EXCEPT !.failed = ~up.ok])]
    /\ call' = "requests.get"
    /\ arg' = <<p>>
    /\ UNCHANGED featData
    /\ ConcUnchanged

\* The transaction of save_track_features(content).
ConcSave(p) ==
    /\ frame[p].pc = "save"
    /\ featData' = save_track_features(featData, frame[p].content, now)
    /\ frame' = [frame EXCEPT ![p] =
                    IF NoDataIds(ConcChunk(frame[p]), frame[p].content) # <<>>
                    THEN [frame[p] EXCEPT !.pc = "mark"]
                    ELSE ConcAdvance(frame[p])]
    /\ call' = "save_track_features"
    /\ arg' = <<p>>
    /\ UNCHANGED reqs
    /\ ConcUnchanged

\* The transaction of mark_tracks_no_data(no_data_ids).
ConcMark(p) ==
    /\ frame[p].pc = "mark"
    /\ featData' = mark_tracks_no_data(featData,
                       NoDataIds(ConcChunk(frame[p]), frame[p].content), now)
    /\ frame' = [frame EXCEPT ![p] = ConcAdvance(frame[p])]
    /\ call' = "mark_tracks_no_data"
    /\ arg' = <<p>>
    /\ UNCHANGED reqs
    /\ ConcUnchanged

\* The last load_track_features and the return.
ConcReload(p) ==
    /\ frame[p].pc = "reload"
    /\ frame' = [frame EXCEPT ![p] =
                    [frame[p] EXCEPT !.pc = "done",
                                     !.ret = load_track_features(featData, frame[p].track_ids)]]
    /\ call' = "load_track_features"
    /\ arg' = <<p>>
    /\ UNCHANGED <<featData, reqs>>
    /\ ConcUnchanged

ConcBeginAny == \E p \in Procs, track_ids \in ConcIdLists : ConcBegin(p, track_ids)
ConcRequestAny ==
    \E p \in Procs :
        \E up \in {Content(ConcFeatures(ConcChunk(frame[p]))), RequestException} :
            ConcRequest(p, up)
ConcSaveAny == \E p \in Procs : ConcSave(p)
ConcMarkAny == \E p \in Procs : ConcMark(p)
ConcReloadAny == \E p \in Procs : ConcReload(p)

NextConc ==
    \/ ConcBeginAny
    \/ ConcRequestAny
    \/ ConcSaveAny
    \/ ConcMarkAny
    \/ ConcReloadAny

SpecConc == InitConc /\ [][NextConc]_vars

\* Both calls have returned and none of their requests failed.
BothDone ==
    /\ \A p \in Procs : frame[p].pc = "done" /\ ~frame[p].failed

SharedIds == Range(frame[1].track_ids) \cap Range(frame[2].track_ids)

\* The rows one call run alone after the other would leave, in either order.
AfterOneThenOther(first, second) ==
    SequentialRun(SequentialRun(run.table, frame[first].track_ids, now),
                  frame[second].track_ids, now)

\* The row is what one write of save_track_features for id, or one write of
\* mark_tracks_no_data, puts in the table.
OneWrite(id, row) ==
    \/ /\ row.fetch_status = "ok"
       /\ row.features_json # <<>>
       /\ LET obj == json_loads_dict(row.features_json)
          IN  /\ extract_spotify_id_from_href(obj.href) = id
              /\ row.tempo = TempoVal(obj.tempo)
    \/ /\ row.fetch_status = "no_data"
       /\ row.tempo = NoTempo
       /\ row.features_json = <<>>

\* C17: concurrent runs on shared keys.  Two reconciler calls over
\* overlapping identity lists run interleaved at the level of single
\* requests and single store transactions against one upstream.  At every
\* moment each row of track_features is the row of one write (never the
\* tempo or raw record of one write under the status of another); and once
\* both calls have returned without a failed request, every shared identity
\* has the row that the two calls run one after the other would leave:
\* 'ok' with the upstream's tempo and record when the upstream holds the
\* identity, 'no_data' with null tempo otherwise.
C17_ConcurrentRuns ==
    /\ \A id \in DOMAIN featData : OneWrite(id, featData[id])
    /\ BothDone =>
          \A id \in SharedIds :
              /\ id \in DOMAIN featData
              /\ featData[id] = AfterOneThenOther(1, 2)[id]
              /\ featData[id] = AfterOneThenOther(2, 1)[id]
              /\ IF ConcUpstream[id] # <<>>
                 THEN /\ featData[id].fetch_status = "ok"
                      /\ featData[id].tempo = TempoVal(ConcUpstream[id][1])
                      /\ featData[id].features_json =
                             json_dumps_dict(Feature(id, ConcUpstream[id][1]))
                 ELSE /\ featData[id].fetch_status = "no_data"
                      /\ featData[id].tempo = NoTempo
                      /\ featData[id].features_json = <<>>

\* Both calls carried C, which the table held as a stale 'ok' row and the
\* upstream no longer holds: each call had loaded the table before the other
\* wrote C, so both requested C and both marked it, and C is 'no_data'.
C17_Witness ==
    /\ BothDone
    /\ "C" \in SharedIds
    /\ "C" \in DOMAIN run.table
    /\ run.table["C"].fetch_status = "ok"
    /\ \A p \in Procs : "C" \in Range(frame[p].missing_ids)
    /\ Len(reqs) >= 3
    /\ featData["C"].fetch_status = "no_data"
    /\ call = "load_track_features"

(***************************************************************************)
(* A run of generate_playlist_logic that stops part-way, then a second run *)
(* (SpecCrash).  The upstream is fixed; on day 0 its requests may fail and *)
(* the process may stop after any step, on day 1 no request fails.         *)
(***************************************************************************)
CrashTopTracks == <<Track("A"), Track("B")>>
CrashSavedCollection == <<SavedItem("B")>>
CrashTopArtists == <<Artist(None), Artist("R1")>>
CrashArtistTracks == <<Track("C")>>
CrashRecs == <<Rec("D")>>
\* The upstream holds a tempo for A, B and D and nothing for C.
CrashTempoOf == [A |-> <<1650>>, B |-> <<1580>>, C |-> <<>>, D |-> <<1600>>]
CrashFeatures(chunk) ==
    LET held == SelectSeq(chunk, LAMBDA id : CrashTempoOf[id] # <<>>)
    IN  [i \in 1..Len(held) |-> Feature(held[i], CrashTempoOf[held[i]][1])]

\* The outcomes of a request: its answer, and on day 0 also its failure.
CrashOutcomes(answer, failure) == IF now = 0 THEN {answer, failure} ELSE {answer}

\* Variant whose first write of a chunk marks the whole chunk 'no_data'.
ChunkFirstWriteMarkAll(tbl, chunk, content, ts) == mark_tracks_no_data(tbl, chunk, ts)

\* The first store write of a chunk: save_track_features(content).
ChunkFirstWrite(tbl, chunk, content, ts) == save_track_features(tbl, content, ts)

CrashGenTopTracks ==
    /\ call \in {"init_db", "crash"}
    /\ \E u \in Users, cadence \in CADENCE_OPTIONS,
          up \in CrashOutcomes(Items(CrashTopTracks), SpotifyException) :
        PipeTopTracks([id |-> u], cadence, up)

CrashGenSavedTracks == PipeSavedTracks(CrashSavedCollection)

CrashSavedTracksPage ==
    /\ \E ok \in (IF now = 0 THEN BOOLEAN ELSE {TRUE}) : SavedTracksPage(ok)
    /\ UNCHANGED <<now, pipe, run, playlist, events>>

CrashGenTopArtists ==
    \E up \in CrashOutcomes(Items(CrashTopArtists), SpotifyException) : PipeTopArtists(up)

CrashGenArtistTracks ==
    \E up \in CrashOutcomes(Items(CrashArtistTracks), SpotifyException) : PipeArtistTracks(up)

CrashGenSimilarTrack ==
    /\ \E up \in CrashOutcomes(Content(CrashRecs), RequestException) : SimilarTrack(up)
    /\ UNCHANGED <<now, pipe, run, playlist, events>>

CrashGenConsolidate ==
    \E all_track_ids \in UNION {PipeOrders(S) : S \in SUBSET TrackIds} :
        PipeConsolidate(all_track_ids)

CrashGenTemposChunk ==
    /\ fn = "tempos"
    /\ \E up \in CrashOutcomes(Content(CrashFeatures(CurrentChunk)), RequestException) :
          TemposChunk(up)
    /\ UNCHANGED <<now, pipe, run, playlist, events>>

\* The process is gone: its locals and its event stream are lost, the
\* tables stay; the next request comes a day later.
Stopped ==
    /\ now' = now + 1
    /\ pipe' = "idle"
    /\ run' = <<>>
    /\ fn' = "none"
    /\ frame' = <<>>
    /\ call' = "crash"
    /\ ret' = <<>>
    /\ reqs' = <<>>
    /\ playlist' = <<>>
    /\ events' = <<>>
    /\ arg' = <<>>

\* The run stops between two steps: after any store write, before the next.
Crash ==
    /\ now = 0
    /\ pipe # "idle"
    /\ Stopped
    /\ UNCHANGED store

\* The run stops inside a chunk, after save_track_features and before
\* mark_tracks_no_data.
CrashAfterSave ==
    /\ now = 0
    /\ fn = "tempos"
    /\ LET content == CrashFeatures(CurrentChunk)
       IN  /\ NoDataIds(CurrentChunk, content) # <<>>
           /\ featData' = ChunkFirstWrite(featData, CurrentChunk, content, now)
    /\ Stopped
    /\ UNCHANGED <<userData, artistData, recData, combinedData>>

NextCrash ==
    \/ CrashGenTopTracks
    \/ CrashGenSavedTracks
    \/ CrashSavedTracksPage
    \/ CrashGenTopArtists
    \/ CrashGenArtistTracks
    \/ PipeSimilar
    \/ CrashGenSimilarTrack
    \/ StepSimilarReturn
    \/ CrashGenConsolidate
    \/ PipeTempos
    \/ CrashGenTemposChunk
    \/ GenBuild
    \/ Crash
    \/ CrashAfterSave

SpecCrash == Init /\ [][NextCrash]_vars

\* The data-model invariants of every record of the five tables.
PayloadRowValid(row) ==
    /\ row.count = Len(json_loads(row.payload))
    /\ row.last_fetched \in 0..now
StoreValid ==
    /\ \A k \in DOMAIN userData : PayloadRowValid(userData[k])
    /\ \A k \in DOMAIN artistData : PayloadRowValid(artistData[k])
    /\ \A k \in DOMAIN recData :
          /\ recData[k].count = Len(json_loads(recData[k].recs_json))
          /\ recData[k].last_fetched \in 0..now
    /\ \A k \in DOMAIN combinedData :
          /\ combinedData[k].count = Len(json_loads(combinedData[k].track_ids))
          /\ combinedData[k].last_fetched \in 0..now
    /\ \A id \in DOMAIN featData :
          /\ featData[id].fetch_status \in {"ok", "no_data"}
          /\ featData[id].last_fetched \in 0..now
          /\ featData[id].fetch_status = "ok" => featData[id].features_json # <<>>
          /\ featData[id].fetch_status = "no_data"
                => /\ featData[id].tempo = NoTempo
                   /\ featData[id].features_json = <<>>

\* The run on day 0 was not interrupted and none of its requests failed:
\* every key was fetched and stored that day and the run reached the filter.
UninterruptedRun ==
    /\ now = 0
    /\ Finished /\ ReachedFilter
    /\ {<<"u1", "top_tracks">>, <<"u1", "saved_tracks">>, <<"u1", "top_artists">>}
           \subseteq DOMAIN userData
    /\ "R1" \in DOMAIN artistData
    /\ {"A", "B"} \subseteq DOMAIN recData
    /\ Range(run.all_track_ids) \subseteq DOMAIN run.tempo_data

\* The run after the stop has ended.
RerunEnded == now = 1 /\ Finished

\* C18: crash resumability.  Whatever step a run stops after (also between
\* save_track_features and mark_tracks_no_data of one chunk, and whichever
\* of its requests had failed before), every record of the five tables then
\* and later satisfies the data-model invariants, and a second run whose
\* requests do not fail reaches the filter and retains the same identities
\* as a run that was not interrupted: those the upstream holds with a tempo
\* inside the band.
C18_CrashResumable ==
    /\ StoreValid
    /\ (UninterruptedRun \/ RerunEnded) =>
          /\ ReachedFilter
          /\ Range(run.filtered_ids) =
                 {id \in TrackIds : /\ CrashTempoOf[id] # <<>>
                                    /\ InBand(CrashTempoOf[id][1], run.cadence)}
          /\ Len(run.filtered_ids) = Cardinality(Range(run.filtered_ids))

\* The first run fetched and stored every list, saved D of the chunk of C
\* and D and stopped before marking C; the second run marked C a day later
\* and retained A and D.
C18_Witness ==
    /\ RerunEnded
    /\ \A k \in DOMAIN userData : userData[k].last_fetched = 0
    /\ Cardinality(DOMAIN userData) = 3
    /\ "R1" \in DOMAIN artistData /\ artistData["R1"].last_fetched = 0
    /\ {"A", "B"} \subseteq DOMAIN recData
    /\ \A k \in DOMAIN recData : recData[k].last_fetched = 0
    /\ {"C", "D"} \subseteq DOMAIN featData
    /\ featData["D"].last_fetched = 0
    /\ featData["C"].last_fetched = 1
    /\ featData["C"].fetch_status = "no_data"
    /\ Range(run.filtered_ids) = {"A", "D"}

(***************************************************************************)
(* fetch_user_saved_tracks paging through saved collections (SpecPaging).  *)
(* The page loop is taken to run on: once a page is requested the call     *)
(* goes on to its return.                                                  *)
(***************************************************************************)
\* Collections of zero to five items: an exact number of pages, a last
\* short page, an item saved twice, an item without track, a track without id.
PagingCollections ==
    {<<>>,
     <<SavedItem("B"), SavedItem("C")>>,
     <<SavedItem("B"), SavedItem("B"), SavedItem("C")>>,
     <<SavedItem("B"), NoTrackItem, SavedItem(None), SavedItem("C"), SavedItem("B")>>}

PagingBegin ==
    /\ Idle
    /\ \E u \in Users, coll \in PagingCollections : SavedTracksBegin(u, PAGE_LIMIT, coll)
    /\ UNCHANGED <<now, pipe, run, playlist, events>>

PagingPage ==
    /\ \E ok \in BOOLEAN : SavedTracksPage(ok)
    /\ UNCHANGED <<now, pipe, run, playlist, events>>

NextPaging ==
    \/ PagingBegin
    \/ PagingPage
    \/ Tick

SpecPaging == Init /\ [][NextPaging]_vars /\ WF_vars(PagingPage)

\* The number of items of coll at the positions a page at offset covers.
ReceivedAt(coll, offset) ==
    Cardinality({i \in 1..Len(coll) : offset < i /\ i <= offset + PAGE_LIMIT})

\* The tracks of the items of coll that carry a track with an id, in the
\* order of coll, an item saved twice counted twice.
RECURSIVE TracksWithId(_)
TracksWithId(coll) ==
    IF coll = <<>> THEN <<>>
    ELSE (IF Head(coll).track # <<>> /\ Head(coll).track[1].id # None
          THEN <<Head(coll).track[1]>> ELSE <<>>) \o TracksWithId(Tail(coll))

\* A saved-tracks call that went to the upstream.
InPaging == call = "fetch_user_saved_tracks" /\ reqs # <<>>

PagingRequests ==
    InPaging =>
        /\ reqs[1].arg = 0
        /\ \A k \in 1..(Len(reqs) - 1) :
              /\ reqs[k].ok
              /\ ReceivedAt(frame.upstream, reqs[k].arg) = PAGE_LIMIT
              /\ reqs[k + 1].arg = reqs[k].arg + ReceivedAt(frame.upstream, reqs[k].arg)
              /\ reqs[k + 1].arg > reqs[k].arg
        /\ fn = "saved" =>
              /\ reqs[Len(reqs)].ok
              /\ ReceivedAt(frame.upstream, reqs[Len(reqs)].arg) = PAGE_LIMIT
        /\ (fn = "none" /\ reqs[Len(reqs)].ok) =>
              /\ ReceivedAt(frame.upstream, reqs[Len(reqs)].arg) < PAGE_LIMIT
              /\ ret = TracksWithId(frame.upstream)

\* C21: pagination collector.  A saved-tracks call that goes to the
\* upstream requests its first page at offset 0 and each further page at the
\* previous offset plus the number of items that page delivered, which is a
\* full page, so offsets strictly increase; it requests no page after a page
\* that is empty or shorter than the page size; when no request failed it
\* returns the track of every upstream item that carries a track with an id,
\* once per item and in upstream order (an item saved twice twice); and
\* every call that has begun paging returns.
C21_PaginationCollector ==
    /\ []PagingRequests
    /\ (fn = "saved") ~> (fn = "none")

\* Three pages (2, 2 and 1 items) of a collection in which B is saved twice
\* and two items have no track or no id: three tracks are returned, B twice.
C21_Witness ==
    /\ InPaging
    /\ fn = "none"
    /\ Len(reqs) = 3
    /\ \A k \in 1..3 : reqs[k].ok /\ reqs[k].arg = 2 * (k - 1)
    /\ Len(frame.upstream) = 5
    /\ ret = <<Track("B"), Track("C"), Track("B")>>

(***************************************************************************)
(* C22, C23: the similarity threshold and the persisted union (Spec)       *)
(***************************************************************************)
\* C22: recommendation threshold.  Every step of
\* fetch_similar_tracks_for_top_tracks (its entry, the cache read or the
\* request for a seed, its return) is taken in a run whose saved-tracks
\* fetch returned fewer than SAVED_THRESHOLD tracks (500 in the source); in a
\* run whose saved-tracks fetch returned that many or more, no step touches
\* the recommendations table, no status event announces a lookup, and every
\* identity of the union comes from top tracks, saved tracks or artist
\* tracks.
C22_RecommendationThreshold ==
    /\ [][ /\ call' = "fetch_similar_tracks_for_top_tracks"
              => Len(run'.saved_tracks) < SAVED_THRESHOLD
           /\ (events' # <<>> /\ pipe # "idle"
               /\ Len(run'.saved_tracks) >= SAVED_THRESHOLD)
              => recData' = recData
         ]_vars
    /\ [] ((events # <<>> /\ Len(run.saved_tracks) >= SAVED_THRESHOLD) =>
              /\ ~run.lookup
              /\ run.similar_ids = {}
              /\ \A i \in 1..Len(events) : events[i] # Status("similar")
              /\ Range(run.all_track_ids) \subseteq
                     IdsOf(run.top_tracks) \cup IdsOf(run.saved_tracks)
                         \cup IdsOf(run.artist_tracks))

\* A run with top tracks to seed from and exactly SAVED_THRESHOLD saved
\* tracks ended without a lookup: D, which only the recommendations name, is
\* not in the union.
C22_Witness ==
    /\ Finished
    /\ Len(run.saved_tracks) = SAVED_THRESHOLD
    /\ run.top_tracks # <<>>
    /\ run.all_track_ids # <<>>
    /\ ~run.lookup
    /\ "D" \notin Range(run.all_track_ids)

\* The union of the four sources as the run holds them before consolidation.
SourceUnion ==
    IdsOf(run.top_tracks) \cup IdsOf(run.saved_tracks) \cup IdsOf(run.artist_tracks)
        \cup (IF run.lookup THEN frame.similar_ids ELSE {})

\* The list stored as the user's combined tracks.
StoredCombined(user_id) == json_loads(combinedData[user_id].track_ids)

\* C23: union and persistence.  The consolidation step of a run with a
\* non-empty union writes the user's combined-tracks row: its list has no
\* identity twice and is, as a set, the union of the ids of top tracks,
\* saved tracks, artist tracks and similarity results (tracks without an id
\* left out), and its count is the length of the list; with an empty union
\* the step writes nothing.  From then on, through the tempo reconciliation
\* and to the end of the run, whether or not a track passes the filter, the
\* row holds the run's identity list.
C23_UnionPersisted ==
    /\ [][ (pipe = "consolidate" /\ pipe' # "consolidate") =>
              IF SourceUnion = {}
              THEN /\ combinedData' = combinedData
                   /\ pipe' = "idle"
              ELSE /\ pipe' = "tempos"
                   /\ run.user_id \in DOMAIN combinedData'
                   /\ Range(StoredCombined(run.user_id)') = SourceUnion
                   /\ Len(StoredCombined(run.user_id)') = Cardinality(SourceUnion)
                   /\ combinedData'[run.user_id].count = Cardinality(SourceUnion)
                   /\ combinedData'[run.user_id].last_fetched = now
                   /\ None \notin Range(StoredCombined(run.user_id)')
         ]_vars
    /\ [] ((pipe \in {"tempos", "filter"} \/ (Finished /\ ReachedFilter)) =>
              /\ run.user_id \in DOMAIN combinedData
              /\ StoredCombined(run.user_id) = run.all_track_ids)
    /\ [] ((fn = "tempos" /\ pipe # "idle") => pipe = "filter")

\* A run whose sources overlap (B is a top track and a saved track) and hold
\* a track without id ended with nothing passing the filter; the row holds
\* the three identities of the union.
C23_Witness ==
    /\ Finished /\ ReachedFilter
    /\ run.filtered_ids = <<>>
    /\ "B" \in IdsOf(run.top_tracks) \cap IdsOf(run.saved_tracks)
    /\ \E i \in 1..Len(run.artist_tracks) : run.artist_tracks[i].id = None
    /\ Len(StoredCombined(run.user_id)) = 3
    /\ Range(StoredCombined(run.user_id)) = {"A", "B", "C"}

(***************************************************************************)
(* Rows whose last_fetched is not a timestamp (SpecMalformed).  The column *)
(* is declared TIMESTAMP, which SQLite gives NUMERIC affinity: text that   *)
(* is no number is kept as text, text that reads as a number ("2024") is   *)
(* stored and handed back as a number.  A call that ends by raising leaves *)
(* call = "AttributeError" and the attempted function in arg.              *)
(***************************************************************************)
Unparsable == {Malformed, NonText}

InitMalformed ==
    /\ \E t \in Unparsable :
          userData = save_user_spotify_data(EmptyTable, "u1", "top_tracks", <<Track("A")>>, t)
    /\ \E t \in Unparsable :
          featData = save_track_features(EmptyTable, <<Feature("A", 1650)>>, t)
    /\ artistData = EmptyTable
    /\ recData = EmptyTable
    /\ combinedData = EmptyTable
    /\ now = 0
    /\ pipe = "idle"
    /\ run = <<>>
    /\ fn = "none"
    /\ frame = <<>>
    /\ call = "init_db"
    /\ ret = <<>>
    /\ reqs = <<>>
    /\ playlist = <<>>
    /\ events = <<>>
    /\ arg = <<>>

\* The call ends with the AttributeError of is_stale; nothing is written.
Raised(name, a) ==
    /\ call' = "AttributeError"
    /\ arg' = <<name>> \o a
    /\ UNCHANGED <<store, now, pipe, run, fn, frame, ret, reqs, playlist, events>>

\* is_stale(cached["last_fetched"]) on the stored top-tracks row.
MalIsStale ==
    /\ Idle
    /\ LET cached == load_user_spotify_data(userData, "u1", "top_tracks")
       IN  /\ cached # <<>>
           /\ IF is_stale_raises(cached[1].last_fetched)
              THEN Raised("is_stale", <<>>)
              ELSE /\ ret' = is_stale(cached[1].last_fetched, CACHE_TTL_DAYS, now)
                   /\ call' = "is_stale"
                   /\ arg' = <<cached[1].last_fetched>>
                   /\ UNCHANGED <<store, now, pipe, run, fn, frame, reqs, playlist, events>>

MalFetchUserTopTracks ==
    /\ Idle
    /\ LET cached == load_user_spotify_data(userData, "u1", "top_tracks")
       IN  IF cached # <<>> /\ is_stale_raises(cached[1].last_fetched)
           THEN Raised("fetch_user_top_tracks", <<"u1">>)
           ELSE /\ \E up \in Outcomes(TopTrackLists) : DoFetchUserTopTracks("u1", up)
                /\ UNCHANGED <<now, pipe, run, playlist, events>>

MalTrackIdLists == {<<"A">>, <<"B", "A">>}

MalFetchMissingTempos ==
    /\ Idle
    /\ \E track_ids \in MalTrackIdLists :
          IF \E id \in Range(track_ids) \cap DOMAIN featData :
                 is_stale_raises(featData[id].last_fetched)
          THEN Raised("fetch_missing_tempos_with_reccobeats", <<track_ids>>)
          ELSE /\ TemposBegin(track_ids)
               /\ UNCHANGED <<now, pipe, run, playlist, events>>

NextMalformed ==
    \/ MalIsStale
    \/ MalFetchUserTopTracks
    \/ MalFetchMissingTempos
    \/ StepTemposChunk
    \/ Tick

SpecMalformed == InitMalformed /\ [][NextMalformed]_vars

\* The step is a call of name, returned or raised.
Attempted(name) ==
    \/ call' = name
    \/ call' = "AttributeError" /\ arg'[1] = name

TopRowUnparsable ==
    /\ <<"u1", "top_tracks">> \in DOMAIN userData
    /\ userData[<<"u1", "top_tracks">>].last_fetched \in Unparsable

\* C24 (as claimed): malformed timestamp.  is_stale of a stored last_fetched
\* that is no timestamp returns true and does not raise; a call of
\* fetch_user_top_tracks whose row has such a value issues its upstream
\* request instead of serving the row; a reconciler call whose input holds
\* an identity with such a row puts that identity among the missing ids.
C24_MalformedTimestamp ==
    [][ /\ (Idle /\ Attempted("is_stale") /\ TopRowUnparsable)
              => (call' = "is_stale" /\ ret' = TRUE)
        /\ (Idle /\ Attempted("fetch_user_top_tracks") /\ TopRowUnparsable)
              => (call' = "fetch_user_top_tracks" /\ Len(reqs') = 1)
        /\ (Idle /\ Attempted("fetch_missing_tempos_with_reccobeats"))
              => LET track_ids == IF call' = "AttributeError" THEN arg'[2] ELSE arg'[1]
                     bad == {id \in Range(track_ids) \cap DOMAIN featData :
                                featData[id].last_fetched \in Unparsable}
                 IN  bad # {} =>
                        /\ call' = "fetch_missing_tempos_with_reccobeats"
                        /\ bad \subseteq Range(frame'.missing_ids)
      ]_vars

(***************************************************************************)
(* C25: the event stream of a run (Spec)                                   *)
(***************************************************************************)
\* How far a run has come: the step of generate_playlist_logic it is at,
\* then the requests made and the queue consumed by the function in progress.
RunRank ==
    LET stage == CASE pipe = "saved" -> 1
                   [] pipe = "artists" -> 2
                   [] pipe = "artist_tracks" -> 3
                   [] pipe = "consolidate" -> 4
                   [] pipe = "tempos" -> 5
                   [] pipe = "filter" -> 6
                   [] OTHER -> 7
    IN  100 * stage
        + (IF fn = "none" THEN 50 ELSE Len(reqs))
        + (IF fn = "similar" THEN 10 - Len(frame.queue) ELSE 0)
        + (IF pipe = "artist_tracks" THEN 10 - Len(run.queue) ELSE 0)

\* The run in progress can take its next step.
RunCanStep ==
    CASE pipe = "saved" -> ENABLED GenSavedTracks
      [] pipe = "artists" ->
            IF fn = "saved" THEN ENABLED StepSavedTracksPage ELSE ENABLED GenTopArtists
      [] pipe = "artist_tracks" ->
            IF run.queue # <<>> THEN ENABLED GenArtistTracks ELSE ENABLED PipeSimilar
      [] pipe = "consolidate" ->
            IF fn # "similar" THEN ENABLED GenConsolidate
            ELSE IF frame.queue # <<>> THEN ENABLED GenSimilarTrack
            ELSE ENABLED StepSimilarReturn
      [] pipe = "tempos" -> ENABLED PipeTempos
      [] pipe = "filter" ->
            IF fn = "tempos" THEN ENABLED GenTemposChunk ELSE ENABLED GenBuild
      [] OTHER -> FALSE

Terminal(e) == e.type \in {"done", "error"}

\* C25: the stream of a run holds no terminal event while the run goes on
\* and, once it has ended, exactly one, 'done' or 'error', in last place, so
\* that no status event follows it; the stream ends with 'done' only when
\* user_playlist_create and every playlist_add_items call for the filtered
\* identities were issued and returned; and every run ends: while it goes
\* on a step is always possible and each step takes it further, at most up
\* to its end.
C25_OneTerminalEvent ==
    /\ [] (events # <<>> =>
             /\ \A i \in 1..Len(events) :
                    /\ events[i].type \in {"status", "done", "error"}
                    /\ Terminal(events[i]) => i = Len(events)
             /\ pipe # "idle" <=> ~Terminal(LastEvent)
             /\ LastEvent.type = "done" =>
                    /\ run.filtered_ids # <<>>
                    /\ playlist # <<>>
                    /\ playlist[1].api = "user_playlist_create"
                    /\ Len(playlist) =
                           1 + Len(Batches(TrackUris(run.filtered_ids), PLAYLIST_BATCH))
                    /\ events[Len(events) - 1] = Status("cooked"))
    /\ [] (pipe # "idle" => (RunCanStep /\ RunRank < 700))
    /\ [][pipe # "idle" => (RunRank' > RunRank /\ RunRank' <= 750)]_vars

\* A run ended with 'error' after user_playlist_create was issued and
\* failed: the stream holds five status events and the one terminal event.
C25_Witness ==
    /\ Finished
    /\ LastEvent.type = "error"
    /\ Len(playlist) = 1
    /\ playlist[1].api = "user_playlist_create"
    /\ run.filtered_ids # <<>>
    /\ \A i \in 1..(Len(events) - 1) : events[i].type = "status"

(***************************************************************************)
(* C26, C27: a second reconciler call, and the rows a chunk writes         *)
(* (SpecRecon)                                                             *)
(***************************************************************************)
\* The step begins a reconciler call on the list of the call before it,
\* which has returned with none of its requests failed; the clock may have
\* moved since, but no row of the list is older than the TTL.
SecondCallStep ==
    /\ fn = "none"
    /\ call \in {"fetch_missing_tempos_with_reccobeats", "tick"}
    /\ Len(arg) = 1
    /\ call' = "fetch_missing_tempos_with_reccobeats"
    /\ arg' = arg
    /\ \A k \in 1..Len(reqs) : reqs[k].ok
    /\ \A id \in Range(arg[1]) \cap DOMAIN featData :
          NotOlderThanTTL(featData[id], now)

\* C26 (as claimed): convergence.  After a reconciler call in which every
\* chunk request succeeded, a second call on the same list made before any
\* row becomes stale returns at once: it issues no upstream request, writes
\* nothing, and returns the map the first call returned.
C26_Convergence ==
    [][ SecondCallStep =>
            /\ fn' = "none"
            /\ reqs' = <<>>
            /\ store' = store
            /\ ret' = ret
      ]_vars

\* The step processes the response of one chunk request.
ChunkStep == fn = "tempos" /\ Len(reqs') = Len(reqs) + 1

\* C27 (as claimed): the rows a chunk writes.  Processing the response of a
\* chunk writes track_features rows only for identities of that chunk: the
\* row of every other identity (of another chunk, fresh, or not in the
\* input list) is the same after the step, whatever the response names.
C27_ChunkWritesOwnRows ==
    [][ ChunkStep =>
            \A id \in (DOMAIN featData \cup DOMAIN featData') \ Range(reqs'[Len(reqs')].arg) :
                /\ id \in DOMAIN featData
                /\ id \in DOMAIN featData'
                /\ featData'[id] = featData[id]
      ]_vars

====
